---- MODULE Spec2Model ----
(***************************************************************************)
(* xcode-copilot-server: the tool-bridge continuation engine.              *)
(*                                                                         *)
(* ToolBridgeState (tool-bridge/state.ts) holds, for one conversation,     *)
(* the queues of expected tool calls, the table of parked MCP requests     *)
(* with their timers, the attached reply, the streaming-done slot and the  *)
(* session flags.  The bridge route POST /internal/tool-call parks one     *)
(* HTTP request per tool call; POST /v1/messages delivers tool results.    *)
(*                                                                         *)
(* Node runs every handler to completion between awaits, so one action is  *)
(* one synchronous run of a handler, a callback or a timer closure.        *)
(***************************************************************************)
EXTENDS Integers, Sequences, FiniteSets, TLC

(***************************************************************************)
(* Bounds of the exploration.                                              *)
(***************************************************************************)
\* calls of registerExpected and of registerMCPRequest on the bare class
MaxIds == 2
MaxMCPReq == 2
\* on the server: POST /v1/messages requests, tool calls the sessions
\* announce, and POST /internal/tool-call requests
MaxMsgReq == 2
MaxToolUse == 1
MaxToolCallPosts == 1
MaxSessions == 1
\* on the conversation manager: conversations created, tool calls their
\* sessions announce, and tool-call requests of the bridge
MaxConvs == 2
MaxConvToolUse == 1
MaxConvToolCalls == 1
\* on the tool cache: tools in a cached catalog
MaxCatalog == 2
\* on the process: signals delivered
MaxSignals == 2
\* on the MCP passthrough: lines read from stdin
MaxLines == 3

\* Tool-call ids are minted by the session library, one per announced call:
\* an id is never announced twice and is never the empty string.  They are
\* opaque, so they are numbered in the order of their announcement.
Ids == 1..MaxIds
\* One (resolve, reject) pair, and one timer handle, per registerMCPRequest.
MCPReqs == 1..MaxMCPReq
Names == {"Read", "Write"}
Contents == {"FILE", "ok"}

\* POST /v1/messages requests; a reply is named by the request it answers
MsgReqs == 1..MaxMsgReq

\* conversation ids are minted by create(), one per conversation; they are
\* numbered in the order of creation, which is the order the Map iterates in
ConvIds == 1..MaxConvs
NoConv == 0

NoId == 0
NoReply == 0
NoWaiter == 0
NoName == "-"
NoTools == << >>
EmptyMap == << >>

\* the MCP passthrough before its first line
ShimStarted == [stdout |-> << >>, fetches |-> << >>, lines |-> 0,
                exited |-> FALSE]

\* the process before app.listen
Booting == [listening |-> FALSE, autoPatch |-> FALSE, listener |-> "none",
            shutdowns |-> << >>, exited |-> FALSE, exitCode |-> 0]

\* no createSessionConfig call yet, no hook call yet
NoOpts == [hasToolBridge |-> "undefined", allowedCliTools |-> << >>,
           mcpServers |-> << >>]
NoCall == [toolName |-> << >>, decision |-> "none"]

\* new Error(...) messages, kept as the pieces the template joins
ErrNoExpected(name) == <<"No expected tool call for", name>>
ErrTimedOut(id) == <<"Tool call", ToString(id), "timed out">>
ErrSessionEnded == <<"Session ended">>
ErrSessionCleanup == <<"Session cleanup">>

VARIABLES
    cachedTools,      \* AnthropicToolDefinition[]: the names of the tools
    expectedByName,   \* Map<string, string[]>: the keys present map to queues
    pendingByCallId,  \* Map<string, PendingMCPRequest>
    sessionActive,    \* _sessionActive
    hadError,         \* _hadError
    onSessionEnd,     \* _onSessionEnd is non-null
    reply,            \* the attached reply (the request it answers), or null
    streamingDone,    \* the request whose wait the slot releases, or null
    woken,            \* requests whose waitForStreamingDone promise resolved
    mcp,              \* per registerMCPRequest call: its callbacks and timer
    endFired,         \* number of invocations of the session-end callback
    nextReq,          \* number of registerMCPRequest calls so far, plus one
    nextId,           \* number of ids announced so far, plus one
    regLog,           \* per name: ids appended since the queues were cleared
    bindLog,          \* per name: ids bound since the queues were cleared
    popped,           \* ids registerMCPRequest has shifted off a queue
    lastOp,           \* the operation that produced the current state
    msg,              \* POST /v1/messages requests, in order of arrival
    toolCall,         \* the HTTP reply of each POST /internal/tool-call
    sessionsCreated,  \* number of sessions service.getSession has returned
    sentMessageCount, \* the handler's sentMessageCount
    nextMsg,          \* number of POST /v1/messages received, plus one
    conversationsById,  \* ConversationManager: Map<id, Conversation> (states)
    detached,         \* per conversation no longer registered: the number
                      \* of times its session-end callback has fired
    nextConv,         \* number of create() calls so far, plus one
    lastMgr,          \* the manager operation that produced the current state
    sessionOpts,      \* the options of the last createSessionConfig call
    hookCall,         \* the last onPreToolUse call and what it returned
    proc,             \* the server process: listener, shutdowns, exit
    shim,             \* the MCP passthrough process: stdout, fetches in flight
    closedCalls       \* tool-call requests whose connection closed unanswered

bridgeVars == <<cachedTools, expectedByName, pendingByCallId, sessionActive, hadError,
                onSessionEnd, reply, streamingDone, woken, mcp, endFired>>
counters == <<nextReq, nextId>>
logVars == <<regLog, bindLog, popped, lastOp>>
histVars == <<counters, logVars>>
serverVars == <<msg, toolCall, sessionsCreated, sentMessageCount, nextMsg>>
managerVars == <<conversationsById, detached, nextConv, lastMgr>>
hookVars == <<sessionOpts, hookCall>>
auxVars == <<hookVars, proc, shim, closedCalls>>
vars == <<bridgeVars, histVars, serverVars, managerVars, auxVars>>

Sat(n) == IF n >= 2 THEN 2 ELSE n + 1

Remove(f, k) == [x \in (DOMAIN f) \ {k} |-> f[x]]
Put(f, k, v) == [x \in (DOMAIN f) \cup {k} |-> IF x = k THEN v ELSE f[x]]
Range(q) == {q[i] : i \in 1..Len(q)}

\* The state of one ToolBridgeState together with what its callbacks did.
St ==
    [cachedTools |-> cachedTools, expectedByName |-> expectedByName, pendingByCallId |-> pendingByCallId,
     sessionActive |-> sessionActive, hadError |-> hadError,
     onSessionEnd |-> onSessionEnd, reply |-> reply,
     streamingDone |-> streamingDone, woken |-> woken,
     mcp |-> mcp, endFired |-> endFired]

Commit(s) ==
    /\ cachedTools' = s.cachedTools
    /\ expectedByName' = s.expectedByName
    /\ pendingByCallId' = s.pendingByCallId
    /\ sessionActive' = s.sessionActive
    /\ hadError' = s.hadError
    /\ onSessionEnd' = s.onSessionEnd
    /\ reply' = s.reply
    /\ streamingDone' = s.streamingDone
    /\ woken' = s.woken
    /\ mcp' = s.mcp
    /\ endFired' = s.endFired

FreshMCP ==
    [called |-> FALSE, name |-> NoName, id |-> NoId, timer |-> "none",
     resolved |-> 0, rejected |-> 0, outcome |-> << >>]

\* A promise settles on the first call of resolve or reject; later calls
\* are counted but do not change the outcome.
Settled(m) == m.resolved + m.rejected > 0

InvokeResolve(m, result) ==
    [m EXCEPT !.resolved = Sat(@),
              !.outcome = IF Settled(m) THEN @ ELSE <<"ok", result>>]

InvokeReject(m, err) ==
    [m EXCEPT !.rejected = Sat(@),
              !.outcome = IF Settled(m) THEN @ ELSE <<"err", err>>]

ClearTimeout(m) ==
    [m EXCEPT !.timer = IF @ = "armed" THEN "cleared" ELSE @]

----
(***************************************************************************)
(* ToolBridgeState                                                          *)
(***************************************************************************)

\* a tool definition: its name, a string kept as the sequence of its
\* characters, and the properties of its input_schema in the order of the
\* object's keys
MakeToolWithSchema(name, properties) ==
    [name |-> name, properties |-> properties]
MakeTool(name) == MakeToolWithSchema(name, << >>)

\* String.prototype.endsWith
EndsWith(str, suffix) ==
    /\ Len(str) >= Len(suffix)
    /\ SubSeq(str, Len(str) - Len(suffix) + 1, Len(str)) = suffix

\* mutant: the tools of the request are added to the ones already cached
CacheTools_Appends(s, tools) == [s EXCEPT !.cachedTools = @ \o tools]

CacheTools(s, tools) == [s EXCEPT !.cachedTools = tools]

\* mutant: the suffix is the name, without the "__" boundary
ResolveToolName_EndsWithName(s, name) ==
    IF \E i \in 1..Len(s.cachedTools) : s.cachedTools[i].name = name
    THEN name
    ELSE LET matches == SelectSeq(s.cachedTools,
                                  LAMBDA t : EndsWith(t.name, name))
         IN IF Len(matches) = 1 THEN matches[1].name ELSE name

\* mutant: no exact-match test, and the first suffix match is taken
ResolveToolName_FirstMatchNoExact(s, name) ==
    LET suffix == <<"_", "_">> \o name
        matches == SelectSeq(s.cachedTools,
                             LAMBDA t : EndsWith(t.name, suffix))
    IN IF Len(matches) >= 1 THEN matches[1].name ELSE name

ResolveToolName(s, name) ==
    IF \E i \in 1..Len(s.cachedTools) : s.cachedTools[i].name = name
    THEN name
    ELSE LET suffix == <<"_", "_">> \o name
             matches == SelectSeq(s.cachedTools,
                                  LAMBDA t : EndsWith(t.name, suffix))
         IN IF Len(matches) = 1 THEN matches[1].name ELSE name

SetReply(s, m) == [s EXCEPT !.reply = m]

ClearReply(s) == [s EXCEPT !.reply = NoReply]

\* mutant: the callback is not stored
OnSessionEnd_Dropped(s) == s

OnSessionEnd(s) == [s EXCEPT !.onSessionEnd = TRUE]

\* mutant: only pendingByCallId is searched, not the expected queues
HasPendingToolCall_PendingOnly(s, toolCallId) ==
    toolCallId \in DOMAIN s.pendingByCallId

\* mutant: answers like hasPending, whatever the id
HasPendingToolCall_LikeHasPending(s, toolCallId) ==
    Cardinality(DOMAIN s.pendingByCallId) > 0
        \/ Cardinality(DOMAIN s.expectedByName) > 0

HasPendingToolCall(s, toolCallId) ==
    \/ toolCallId \in DOMAIN s.pendingByCallId
    \/ \E n \in DOMAIN s.expectedByName : toolCallId \in Range(s.expectedByName[n])

Queued(s) ==
    UNION {Range(s.expectedByName[n]) : n \in DOMAIN s.expectedByName}

HasExpectedTool(s, name) ==
    /\ name \in DOMAIN s.expectedByName
    /\ Len(s.expectedByName[name]) > 0

\* mutant: the id is put at the head of the queue (unshift for push)
RegisterExpected_Unshift(s, toolCallId, toolName) ==
    IF toolName \in DOMAIN s.expectedByName
    THEN [s EXCEPT !.expectedByName[toolName] = <<toolCallId>> \o @]
    ELSE [s EXCEPT !.expectedByName = Put(@, toolName, <<toolCallId>>)]

\* mutant: the id is pushed on an existing queue only, no queue is created
RegisterExpected_NoNewQueue(s, toolCallId, toolName) ==
    IF toolName \in DOMAIN s.expectedByName
    THEN [s EXCEPT !.expectedByName[toolName] = Append(@, toolCallId)]
    ELSE s

RegisterExpected(s, toolCallId, toolName) ==
    IF toolName \in DOMAIN s.expectedByName
    THEN [s EXCEPT !.expectedByName[toolName] = Append(@, toolCallId)]
    ELSE [s EXCEPT !.expectedByName = Put(@, toolName, <<toolCallId>>)]

AddPending(s, toolCallId, r) ==
    [s EXCEPT !.mcp[r].timer = "armed",
              !.mcp[r].id = toolCallId,
              !.pendingByCallId =
                  Put(@, toolCallId,
                      [toolCallId |-> toolCallId, req |-> r, timeout |-> r])]

\* mutant: the head of the queue is read but not shifted off
RegisterMCPRequest_NoShift(s, name, r) ==
    LET s0 == [s EXCEPT !.mcp[r].called = TRUE, !.mcp[r].name = name] IN
    IF ~HasExpectedTool(s0, name)
    THEN [s0 EXCEPT !.mcp[r] = InvokeReject(@, ErrNoExpected(name))]
    ELSE LET toolCallId == Head(s0.expectedByName[name])
         IN IF toolCallId = NoId THEN s0
            ELSE AddPending(s0, toolCallId, r)

\* mutant: with no expected id the request is dropped without a reject
RegisterMCPRequest_SilentDrop(s, name, r) ==
    LET s0 == [s EXCEPT !.mcp[r].called = TRUE, !.mcp[r].name = name] IN
    IF ~HasExpectedTool(s0, name)
    THEN s0
    ELSE LET queue == s0.expectedByName[name]
             toolCallId == Head(queue)
             rest == Tail(queue)
             s1 == [s0 EXCEPT !.expectedByName =
                        IF Len(rest) = 0 THEN Remove(@, name)
                        ELSE Put(@, name, rest)]
         IN IF toolCallId = NoId THEN s1
            ELSE AddPending(s1, toolCallId, r)

\* mutant: a queue whose last id was shifted off stays in the map
RegisterMCPRequest_KeepsEmptyQueue(s, name, r) ==
    LET s0 == [s EXCEPT !.mcp[r].called = TRUE, !.mcp[r].name = name] IN
    IF ~HasExpectedTool(s0, name)
    THEN [s0 EXCEPT !.mcp[r] = InvokeReject(@, ErrNoExpected(name))]
    ELSE LET queue == s0.expectedByName[name]
             toolCallId == Head(queue)
             rest == Tail(queue)
             s1 == [s0 EXCEPT !.expectedByName = Put(@, name, rest)]
         IN IF toolCallId = NoId THEN s1
            ELSE AddPending(s1, toolCallId, r)

\* mutant: a call that finds no queued id returns without rejecting
RegisterMCPRequest_SilentReturn(s, name, r) ==
    LET s0 == [s EXCEPT !.mcp[r].called = TRUE, !.mcp[r].name = name] IN
    IF ~HasExpectedTool(s0, name)
    THEN s0
    ELSE LET queue == s0.expectedByName[name]
             toolCallId == Head(queue)
             rest == Tail(queue)
             s1 == [s0 EXCEPT !.expectedByName =
                        IF Len(rest) = 0 THEN Remove(@, name)
                        ELSE Put(@, name, rest)]
         IN IF toolCallId = NoId THEN s1
            ELSE AddPending(s1, toolCallId, r)

RegisterMCPRequest(s, name, r) ==
    LET s0 == [s EXCEPT !.mcp[r].called = TRUE, !.mcp[r].name = name] IN
    IF ~HasExpectedTool(s0, name)
    THEN [s0 EXCEPT !.mcp[r] = InvokeReject(@, ErrNoExpected(name))]
    ELSE LET queue == s0.expectedByName[name]
             toolCallId == Head(queue)
             rest == Tail(queue)
             s1 == [s0 EXCEPT !.expectedByName =
                        IF Len(rest) = 0 THEN Remove(@, name)
                        ELSE Put(@, name, rest)]
         IN IF toolCallId = NoId THEN s1
            ELSE AddPending(s1, toolCallId, r)

\* mutant: the timer rejects but leaves the entry in pendingByCallId
TimeoutClosure_KeepsEntry(s, r) ==
    LET s1 == [s EXCEPT !.mcp[r].timer = "fired"]
    IN [s1 EXCEPT !.mcp[r] = InvokeReject(@, ErrTimedOut(s.mcp[r].id))]

\* the closure handed to setTimeout by addPending
TimeoutClosure(s, r) ==
    LET s1 == [s EXCEPT !.mcp[r].timer = "fired",
                        !.pendingByCallId = Remove(@, s.mcp[r].id)]
    IN [s1 EXCEPT !.mcp[r] = InvokeReject(@, ErrTimedOut(s.mcp[r].id))]

ResolveToolCallReturns(s, toolCallId) == toolCallId \in DOMAIN s.pendingByCallId

\* mutant: the timeout is not cleared on resolve
ResolveToolCall_NoClearTimeout(s, toolCallId, result) ==
    IF toolCallId \notin DOMAIN s.pendingByCallId THEN s
    ELSE LET pending == s.pendingByCallId[toolCallId]
             s2 == [s EXCEPT !.pendingByCallId = Remove(@, toolCallId)]
         IN [s2 EXCEPT !.mcp[pending.req] = InvokeResolve(@, result)]

\* mutant: pending.resolve is handed the call id instead of the result
ResolveToolCall_PassesId(s, toolCallId, result) ==
    IF toolCallId \notin DOMAIN s.pendingByCallId THEN s
    ELSE LET pending == s.pendingByCallId[toolCallId]
             s1 == [s EXCEPT !.mcp[pending.timeout] = ClearTimeout(@)]
             s2 == [s1 EXCEPT !.pendingByCallId = Remove(@, toolCallId)]
         IN [s2 EXCEPT !.mcp[pending.req] = InvokeResolve(@, ToString(toolCallId))]

\* mutant: pendingByCallId.clear() for pendingByCallId.delete(toolCallId)
ResolveToolCall_ClearsPending(s, toolCallId, result) ==
    IF toolCallId \notin DOMAIN s.pendingByCallId THEN s
    ELSE LET pending == s.pendingByCallId[toolCallId]
             s1 == [s EXCEPT !.mcp[pending.timeout] = ClearTimeout(@)]
             s2 == [s1 EXCEPT !.pendingByCallId = EmptyMap]
         IN [s2 EXCEPT !.mcp[pending.req] = InvokeResolve(@, result)]

ResolveToolCall(s, toolCallId, result) ==
    IF toolCallId \notin DOMAIN s.pendingByCallId THEN s
    ELSE LET pending == s.pendingByCallId[toolCallId]
             s1 == [s EXCEPT !.mcp[pending.timeout] = ClearTimeout(@)]
             s2 == [s1 EXCEPT !.pendingByCallId = Remove(@, toolCallId)]
         IN [s2 EXCEPT !.mcp[pending.req] = InvokeResolve(@, result)]

HasPending(s) ==
    Cardinality(DOMAIN s.pendingByCallId) > 0
        \/ Cardinality(DOMAIN s.expectedByName) > 0

\* mutant: the flag is left as it was
MarkSessionErrored_NoFlag(s) == s

MarkSessionErrored(s) == [s EXCEPT !.hadError = TRUE]

\* mutant: a new turn starts with the error flag cleared
MarkSessionActive_ClearsError(s) ==
    [s EXCEPT !.sessionActive = TRUE, !.hadError = FALSE]

MarkSessionActive(s) == [s EXCEPT !.sessionActive = TRUE]

\* for (const [, pending] of pendingByCallId) { clearTimeout; reject(err) }
RejectAllPending(s, err) ==
    LET held(r) == \E id \in DOMAIN s.pendingByCallId :
                       s.pendingByCallId[id].req = r
    IN [s EXCEPT !.mcp = [r \in MCPReqs |->
                    IF held(r) THEN InvokeReject(ClearTimeout(@[r]), err)
                    ELSE @[r]]]

\* if (this._onSessionEnd) { this._onSessionEnd(); this._onSessionEnd = null }
FireSessionEnd(s) ==
    IF s.onSessionEnd
    THEN [s EXCEPT !.endFired = Sat(@), !.onSessionEnd = FALSE]
    ELSE s

\* mutant: the expected queues are not cleared
MarkSessionInactive_KeepsExpected(s) ==
    LET s1 == [s EXCEPT !.sessionActive = FALSE]
        s2 == RejectAllPending(s1, ErrSessionEnded)
        s3 == [s2 EXCEPT !.pendingByCallId = EmptyMap]
    IN FireSessionEnd(s3)

\* mutant: the pending entries are dropped without rejecting them
MarkSessionInactive_NoReject(s) ==
    LET s1 == [s EXCEPT !.sessionActive = FALSE, !.expectedByName = EmptyMap]
        s3 == [s1 EXCEPT !.pendingByCallId = EmptyMap]
    IN FireSessionEnd(s3)

MarkSessionInactive(s) ==
    LET s1 == [s EXCEPT !.sessionActive = FALSE, !.expectedByName = EmptyMap]
        s2 == RejectAllPending(s1, ErrSessionEnded)
        s3 == [s2 EXCEPT !.pendingByCallId = EmptyMap]
    IN FireSessionEnd(s3)

\* mutant: the resolver is called and stays in the slot
NotifyStreamingDone_KeepsSlot(s) ==
    IF s.streamingDone # NoWaiter
    THEN [s EXCEPT !.woken = @ \cup {s.streamingDone}]
    ELSE s

\* mutant: the slot is cleared without calling the resolver
NotifyStreamingDone_NoCall(s) == [s EXCEPT !.streamingDone = NoWaiter]

NotifyStreamingDone(s) ==
    IF s.streamingDone # NoWaiter
    THEN [s EXCEPT !.woken = @ \cup {s.streamingDone},
                   !.streamingDone = NoWaiter]
    ELSE s

\* mutant: a wait also empties the tool catalog
WaitForStreamingDone_ResetsCatalog(s, m) ==
    [s EXCEPT !.streamingDone = m, !.cachedTools = NoTools]

WaitForStreamingDone(s, m) == [s EXCEPT !.streamingDone = m]

\* mutant: the session-end callback is not fired
Cleanup_NoCallback(s) ==
    LET s1 == [s EXCEPT !.sessionActive = FALSE]
        s2 == RejectAllPending(s1, ErrSessionCleanup)
    IN [s2 EXCEPT !.pendingByCallId = EmptyMap, !.expectedByName = EmptyMap]

Cleanup(s) ==
    LET s1 == [s EXCEPT !.sessionActive = FALSE]
        s2 == RejectAllPending(s1, ErrSessionCleanup)
        s3 == [s2 EXCEPT !.pendingByCallId = EmptyMap,
                         !.expectedByName = EmptyMap]
    IN FireSessionEnd(s3)

----
(***************************************************************************)
(* Any order of calls on one ToolBridgeState, and the timers.              *)
(***************************************************************************)

EmptyLog == [n \in Names |-> << >>]

\* header values are strings, kept as the sequence of their characters
XcodePrefix == <<"X", "c", "o", "d", "e", "/">>
Header(value) == [present |-> TRUE, value |-> value]
NoHeader == [present |-> FALSE, value |-> << >>]
XcodeUA == Header(XcodePrefix \o <<"2", "4">>)
UserAgents ==
    {NoHeader, XcodeUA,
     Header(<<"c", "u", "r", "l", "/", "8">>),
     Header(<<"x", "c", "o", "d", "e", "/", "1">>),
     Header(<<"X", "c", "o", "d", "e">>)}

\* String.prototype.startsWith
StartsWith(str, prefix) ==
    /\ Len(str) >= Len(prefix)
    /\ SubSeq(str, 1, Len(prefix)) = prefix

\* a request not received yet, and a tool-call reply not sent yet
FreshMsg ==
    [pc |-> "idle", ua |-> NoHeader, route |-> "none", kind |-> "none",
     id |-> NoId, content |-> "", tools |-> NoTools, path |-> "none",
     parked |-> FALSE, touched |-> FALSE, status |-> 0, frames |-> << >>,
     closeHandler |-> FALSE]
NoAnswer == [status |-> 0, content |-> ""]

Init ==
    /\ cachedTools = NoTools
    /\ expectedByName = EmptyMap
    /\ pendingByCallId = EmptyMap
    /\ sessionActive = FALSE
    /\ hadError = FALSE
    /\ onSessionEnd = FALSE
    /\ reply = NoReply
    /\ streamingDone = NoWaiter
    /\ woken = {}
    /\ mcp = [r \in MCPReqs |-> FreshMCP]
    /\ endFired = 0
    /\ nextReq = 1
    /\ nextId = 1
    /\ regLog = EmptyLog
    /\ bindLog = EmptyLog
    /\ popped = {}
    /\ lastOp = [op |-> "new"]
    /\ msg = [m \in MsgReqs |-> FreshMsg]
    /\ toolCall = [r \in MCPReqs |-> NoAnswer]
    /\ sessionsCreated = 0
    /\ sentMessageCount = 0
    /\ nextMsg = 1
    /\ conversationsById = EmptyMap
    /\ detached = EmptyMap
    /\ nextConv = 1
    /\ lastMgr = [op |-> "new"]
    /\ sessionOpts = NoOpts
    /\ hookCall = NoCall
    /\ proc = Booting
    /\ shim = ShimStarted
    /\ closedCalls = {}

CallOnSessionEnd ==
    /\ ~onSessionEnd /\ endFired = 0
    /\ Commit(OnSessionEnd(St))
    /\ lastOp' = [op |-> "onSessionEnd"]
    /\ UNCHANGED <<nextReq, nextId, regLog, bindLog, popped, serverVars, managerVars, auxVars>>

CallRegisterExpected ==
    \E name \in Names :
        /\ nextId \in Ids
        /\ Commit(RegisterExpected(St, nextId, name))
        /\ nextId' = nextId + 1
        /\ regLog' = [regLog EXCEPT ![name] = Append(@, nextId)]
        /\ lastOp' = [op |-> "registerExpected", id |-> nextId, name |-> name]
        /\ UNCHANGED <<nextReq, bindLog, popped, serverVars, managerVars, auxVars>>

CallRegisterMCPRequest ==
    \E name \in Names :
        /\ nextReq \in MCPReqs
        /\ LET s == RegisterMCPRequest(St, name, nextReq)
               id == s.mcp[nextReq].id
           IN /\ Commit(s)
              /\ bindLog' = IF id = NoId THEN bindLog
                            ELSE [bindLog EXCEPT ![name] = Append(@, id)]
              /\ popped' = popped \cup (Queued(St) \ Queued(s))
        /\ lastOp' = [op |-> "registerMCPRequest", name |-> name,
                      req |-> nextReq]
        /\ nextReq' = nextReq + 1
        /\ UNCHANGED <<nextId, regLog, serverVars, managerVars, auxVars>>

CallResolveToolCall ==
    \E id \in Ids, result \in Contents :
        /\ Commit(ResolveToolCall(St, id, result))
        /\ lastOp' = [op |-> "resolveToolCall", id |-> id, result |-> result,
                      returns |-> ResolveToolCallReturns(St, id)]
        /\ UNCHANGED <<nextReq, nextId, regLog, bindLog, popped, serverVars, managerVars, auxVars>>

TimerFires ==
    \E r \in MCPReqs :
        /\ mcp[r].timer = "armed"
        /\ Commit(TimeoutClosure(St, r))
        /\ lastOp' = [op |-> "timeout", req |-> r, id |-> mcp[r].id]
        /\ UNCHANGED <<nextReq, nextId, regLog, bindLog, popped, serverVars, managerVars, auxVars>>

CallMarkSessionErrored ==
    /\ Commit(MarkSessionErrored(St))
    /\ lastOp' = [op |-> "markSessionErrored"]
    /\ UNCHANGED <<nextReq, nextId, regLog, bindLog, popped, serverVars, managerVars, auxVars>>

CallMarkSessionActive ==
    /\ Commit(MarkSessionActive(St))
    /\ lastOp' = [op |-> "markSessionActive"]
    /\ UNCHANGED <<nextReq, nextId, regLog, bindLog, popped, serverVars, managerVars, auxVars>>

Swept == {pendingByCallId[id].req : id \in DOMAIN pendingByCallId}

CallMarkSessionInactive ==
    /\ Commit(MarkSessionInactive(St))
    /\ regLog' = EmptyLog
    /\ bindLog' = EmptyLog
    /\ lastOp' = [op |-> "markSessionInactive", queued |-> Queued(St),
                  swept |-> Swept, hadCallback |-> onSessionEnd]
    /\ UNCHANGED <<nextReq, nextId, popped, serverVars, managerVars, auxVars>>

CallCleanup ==
    /\ Commit(Cleanup(St))
    /\ regLog' = EmptyLog
    /\ bindLog' = EmptyLog
    /\ lastOp' = [op |-> "cleanup", queued |-> Queued(St),
                  swept |-> Swept, hadCallback |-> onSessionEnd]
    /\ UNCHANGED <<nextReq, nextId, popped, serverVars, managerVars, auxVars>>

Next ==
    \/ CallOnSessionEnd
    \/ CallRegisterExpected
    \/ CallRegisterMCPRequest
    \/ CallResolveToolCall
    \/ TimerFires
    \/ CallMarkSessionActive
    \/ CallMarkSessionInactive
    \/ CallCleanup

Spec == Init /\ [][Next]_vars

----
(***************************************************************************)
(* The end of a session with a callback that calls back into the state.    *)
(* Both markSessionInactive and cleanup invoke this._onSessionEnd() first  *)
(* and assign null to the field when the call has returned, so a callback  *)
(* that calls cleanup() on the same state runs it with the field still     *)
(* set.                                                                    *)
(***************************************************************************)

\* markSessionInactive() or cleanup() on s with a callback of kind cb: the
\* callback returns without touching the state, or its first run calls
\* cleanup() on the state and its later runs return at once (a remove(id)
\* that finds the id only once)
EndSession(op, s, cb) ==
    LET Body(x) == IF op = "cleanup" THEN Cleanup(x) ELSE MarkSessionInactive(x)
        \* the statements above if (this._onSessionEnd)
        s3 == [Body([s EXCEPT !.onSessionEnd = FALSE])
                  EXCEPT !.onSessionEnd = s.onSessionEnd]
        \* this._onSessionEnd() is entered
        s4 == [s3 EXCEPT !.endFired = Sat(@)]
        \* the callback has returned
        s5 == IF cb = "cleanup" THEN Cleanup(s4) ELSE s4
    IN IF s.onSessionEnd
       THEN [s5 EXCEPT !.onSessionEnd = FALSE]
       ELSE s3

CallEndSession ==
    \E op \in {"markSessionInactive", "cleanup"}, cb \in {"returns", "cleanup"} :
        /\ Commit(EndSession(op, St, cb))
        /\ regLog' = EmptyLog
        /\ bindLog' = EmptyLog
        /\ lastOp' = [op |-> op, queued |-> Queued(St), swept |-> Swept,
                      hadCallback |-> onSessionEnd, callback |-> cb]
        /\ UNCHANGED <<nextReq, nextId, popped, serverVars, managerVars, auxVars>>

NextEnd ==
    \/ CallOnSessionEnd
    \/ CallRegisterExpected
    \/ CallRegisterMCPRequest
    \/ CallMarkSessionActive
    \/ CallEndSession

SpecEnd == Init /\ [][NextEnd]_vars

----
(***************************************************************************)
(* The streamingDone slot of one ToolBridgeState: waits, notifies and the   *)
(* calls that end a session, in any order.  A wait is named by the request *)
(* that awaits it.                                                         *)
(***************************************************************************)

CallWaitForStreamingDone ==
    LET m == nextMsg
    IN /\ m \in MsgReqs
       /\ nextMsg' = m + 1
       /\ Commit(WaitForStreamingDone(St, m))
       /\ lastOp' = [op |-> "waitForStreamingDone", waiter |-> m]
       /\ UNCHANGED <<counters, regLog, bindLog, popped, msg, toolCall,
                      sessionsCreated, sentMessageCount, managerVars, auxVars>>

CallNotifyStreamingDone ==
    /\ Commit(NotifyStreamingDone(St))
    /\ lastOp' = [op |-> "notifyStreamingDone", waiter |-> streamingDone]
    /\ UNCHANGED <<counters, regLog, bindLog, popped, serverVars, managerVars, auxVars>>

NextWait ==
    \/ CallWaitForStreamingDone
    \/ CallNotifyStreamingDone
    \/ CallOnSessionEnd
    \/ CallMarkSessionActive
    \/ CallMarkSessionInactive
    \/ CallCleanup

SpecWait == Init /\ [][NextWait]_vars

----
(***************************************************************************)
(* The tool cache of one ToolBridgeState: catalogs cached and names        *)
(* resolved against them.                                                  *)
(***************************************************************************)

\* the letters, for the conversions between casings
Letters ==
    [upper |-> <<"A", "B", "C", "D", "E", "F", "G", "H", "I", "J", "K", "L", "M", "N", "O", "P", "Q", "R", "S", "T", "U", "V", "W", "X", "Y", "Z">>,
     lower |-> <<"a", "b", "c", "d", "e", "f", "g", "h", "i", "j", "k", "l", "m", "n", "o", "p", "q", "r", "s", "t", "u", "v", "w", "x", "y", "z">>]

\* outputMode -> output_mode: every upper-case letter becomes "_" and the
\* letter in lower case
RECURSIVE CamelToSnake(_)
CamelToSnake(str) ==
    IF str = << >> THEN << >>
    ELSE LET c == Head(str)
             ups == {i \in 1..26 : Letters.upper[i] = c}
         IN (IF ups = {} THEN <<c>>
             ELSE <<"_", Letters.lower[CHOOSE i \in ups : TRUE]>>)
                \o CamelToSnake(Tail(str))

\* file_path -> filePath: "_" and a lower-case letter become the letter in
\* upper case
RECURSIVE SnakeToCamel(_)
SnakeToCamel(str) ==
    IF str = << >> THEN << >>
    ELSE LET lows == IF Len(str) >= 2 /\ str[1] = "_"
                     THEN {i \in 1..26 : Letters.lower[i] = str[2]}
                     ELSE {}
         IN IF lows = {} THEN <<Head(str)>> \o SnakeToCamel(Tail(str))
            ELSE <<Letters.upper[CHOOSE i \in lows : TRUE]>>
                     \o SnakeToCamel(SubSeq(str, 3, Len(str)))

\* the fixed alias table of CLI flags
Aliases ==
    {<<<<"i", "g", "n", "o", "r", "e", "C", "a", "s", "e">>, <<"-", "i">>>>,
     <<<<"l", "i", "n", "e", "N", "u", "m", "b", "e", "r", "s">>, <<"-", "n">>>>,
     <<<<"a", "f", "t", "e", "r", "C", "o", "n", "t", "e", "x", "t">>, <<"-", "A">>>>,
     <<<<"b", "e", "f", "o", "r", "e", "C", "o", "n", "t", "e", "x", "t">>, <<"-", "B">>>>}

\* mutant: a key that matches no property of the schema is left out
NormalizeArgs_DropsUnmatched(s, toolName, args) ==
    LET found == SelectSeq(s.cachedTools, LAMBDA t : t.name = toolName)
    IN IF Len(found) = 0 THEN args
       ELSE IF Len(found[1].properties) = 0 THEN args
       ELSE LET props == found[1].properties
                keys == {props[i].key : i \in 1..Len(props)}
            IN SelectSeq(args, LAMBDA a : a.key \in keys)

\* normalizeArgs(toolName, args): args is an object, kept as the sequence of
\* its entries; a value is [type, text]
NormalizeArgs(s, toolName, args) ==
    LET found == SelectSeq(s.cachedTools, LAMBDA t : t.name = toolName)
    IN IF Len(found) = 0 THEN args
       ELSE IF Len(found[1].properties) = 0 THEN args
       ELSE LET props == found[1].properties
                keys == {props[i].key : i \in 1..Len(props)}
                aliased(k) == {a[2] : a \in {b \in Aliases : b[1] = k}}
                target(k) ==
                    IF k \in keys THEN k
                    ELSE IF CamelToSnake(k) \in keys THEN CamelToSnake(k)
                    ELSE IF SnakeToCamel(k) \in keys THEN SnakeToCamel(k)
                    ELSE IF aliased(k) \cap keys # {}
                         THEN CHOOSE t \in aliased(k) \cap keys : TRUE
                    ELSE k
                enum(k) ==
                    IF k \in keys
                    THEN Range(props[CHOOSE i \in 1..Len(props) :
                                        props[i].key = k].enum)
                    ELSE {}
                value(k, v) ==
                    IF v.type # "string" \/ enum(k) = {} THEN v
                    ELSE IF v.text \in enum(k) THEN v
                    ELSE IF CamelToSnake(v.text) \in enum(k)
                         THEN [v EXCEPT !.text = CamelToSnake(v.text)]
                    ELSE IF SnakeToCamel(v.text) \in enum(k)
                         THEN [v EXCEPT !.text = SnakeToCamel(v.text)]
                    ELSE v
            IN [i \in 1..Len(args) |->
                   [key |-> target(args[i].key),
                    value |-> value(target(args[i].key), args[i].value)]]

\* the tools with a schema, the names asked for and the argument objects
\* explored.  No object holds two keys that name the same property: which
\* of the two values the result keeps is not specified.
ArgInputs ==
    LET Prop(key, enum) == [key |-> key, enum |-> enum]
        Str(text) == [type |-> "string", text |-> text]
        Arg(key, value) == [key |-> key, value |-> value]
        Grep == MakeToolWithSchema(<<"G", "r", "e", "p">>,
                    <<Prop(<<"p", "a", "t", "t", "e", "r", "n">>, << >>),
                      Prop(<<"o", "u", "t", "p", "u", "t", "_", "m", "o", "d", "e">>,
                           <<<<"c", "o", "n", "t", "e", "n", "t">>,
                             <<"f", "i", "l", "e", "s", "_", "w", "i", "t", "h", "_", "m", "a", "t", "c", "h", "e", "s">>>>),
                      Prop(<<"-", "i">>, << >>)>>)
        XcodeRead == MakeToolWithSchema(<<"X", "c", "o", "d", "e", "R", "e", "a", "d">>,
                         <<Prop(<<"f", "i", "l", "e", "P", "a", "t", "h">>, << >>)>>)
        entries ==
            {Arg(<<"p", "a", "t", "t", "e", "r", "n">>, Str(<<"f", "o", "o">>)),
             Arg(<<"o", "u", "t", "p", "u", "t", "M", "o", "d", "e">>,
                 Str(<<"f", "i", "l", "e", "s", "W", "i", "t", "h", "M", "a", "t", "c", "h", "e", "s">>)),
             Arg(<<"f", "i", "l", "e", "_", "p", "a", "t", "h">>, Str(<<"/", "f">>)),
             Arg(<<"i", "g", "n", "o", "r", "e", "C", "a", "s", "e">>, [type |-> "boolean", text |-> <<"t", "r", "u", "e">>]),
             Arg(<<"w", "e", "i", "r", "d">>, [type |-> "number", text |-> <<"4", "2">>])}
    IN [catalogs |-> {<<Grep, XcodeRead, MakeTool(<<"R", "e", "a", "d">>)>>},
        toolNames |-> {<<"G", "r", "e", "p">>, <<"X", "c", "o", "d", "e", "R", "e", "a", "d">>, <<"R", "e", "a", "d">>, <<"E", "d", "i", "t">>},
        args |-> {<< >>} \cup {<<a>> : a \in entries}
                     \cup {<<p[1], p[2]>> :
                              p \in {q \in entries \X entries :
                                         q[1].key # q[2].key}}]

\* the names of the tools of a catalog, and the names the model asks for
ToolNameInputs ==
    LET Read == <<"R", "e", "a", "d">>
    IN [cached |-> {Read, <<"a", "_", "_", "R", "e", "a", "d">>,
                    <<"b", "_", "_", "R", "e", "a", "d">>,
                    <<"b", "_", "_", "a", "_", "_", "R", "e", "a", "d">>,
                    <<"a", "R", "e", "a", "d">>,
                    <<"_", "_", "R", "e", "a", "d">>},
        asked |-> {Read, <<"a", "_", "_", "R", "e", "a", "d">>, <<"_", "R", "e", "a", "d">>,
                   <<"a", "d">>, <<"E", "d", "i", "t">>}]

\* the catalogs a request may carry: every list of at most MaxCatalog tools
Catalogs ==
    UNION {[1..n -> {MakeTool(name) : name \in ToolNameInputs.cached}] :
               n \in 0..MaxCatalog}

CallCacheTools ==
    \E tools \in Catalogs \cup ArgInputs.catalogs :
        /\ Commit(CacheTools(St, tools))
        /\ lastOp' = [op |-> "cacheTools"]
        /\ UNCHANGED <<counters, regLog, bindLog, popped, serverVars,
                       managerVars, auxVars>>

CallResolveToolName ==
    \E name \in ToolNameInputs.asked :
        /\ Commit(St)
        /\ lastOp' = [op |-> "resolveToolName", name |-> name,
                      returns |-> ResolveToolName(St, name)]
        /\ UNCHANGED <<counters, regLog, bindLog, popped, serverVars,
                       managerVars, auxVars>>

CallNormalizeArgs ==
    \E toolName \in ArgInputs.toolNames, args \in ArgInputs.args :
        /\ Commit(St)
        /\ lastOp' = [op |-> "normalizeArgs", toolName |-> toolName,
                      args |-> args,
                      returns |-> NormalizeArgs(St, toolName, args)]
        /\ UNCHANGED <<counters, regLog, bindLog, popped, serverVars,
                       managerVars, auxVars>>

NextTools ==
    \/ CallCacheTools
    \/ CallResolveToolName
    \/ CallNormalizeArgs

SpecTools == Init /\ [][NextTools]_vars

----
(***************************************************************************)
(* createSessionConfig: the permission hook of the session configuration.  *)
(* Tool names are strings, kept as the sequence of their characters.       *)
(***************************************************************************)

BridgePrefix ==
    <<"x", "c", "o", "d", "e", "-", "b", "r", "i", "d", "g", "e", "-">>
Star == <<"*">>

\* the inputs explored: input.toolName, config.allowedCliTools, and
\* config.mcpServers in the order Object.entries lists it (allowedTools is
\* optional in an entry)
HookInputs ==
    LET Glob == <<"g", "l", "o", "b">>
        Bash == <<"b", "a", "s", "h">>
        XcodeBuild == <<"X", "c", "o", "d", "e", "B", "u", "i", "l", "d">>
        CustomTool == <<"C", "u", "s", "t", "o", "m">>
        BridgeRead == BridgePrefix \o <<"R", "e", "a", "d">>
        BridgeNoDash == SubSeq(BridgePrefix, 1, 12)
        Server(hasAllowedTools, allowedTools) ==
            [hasAllowedTools |-> hasAllowedTools,
             allowedTools |-> allowedTools]
    IN [toolNames |-> {Glob, Bash, XcodeBuild, CustomTool, BridgeRead,
                       BridgeNoDash, Star},
        allowedCliTools |-> {<< >>, <<Glob>>, <<Glob, Bash>>, <<Star>>,
                             <<BridgeRead>>},
        mcpServers |->
            {<< >>,
             <<Server(FALSE, << >>)>>,
             <<Server(TRUE, <<XcodeBuild>>)>>,
             <<Server(TRUE, <<Star>>)>>,
             <<Server(TRUE, <<XcodeBuild>>), Server(TRUE, <<CustomTool>>)>>,
             <<Server(FALSE, << >>), Server(TRUE, <<Glob, BridgeNoDash>>)>>},
        hasToolBridge |-> {"undefined", "false", "true"}]

\* !!hasToolBridge
Truthy(b) == b = "true"

\* Array.prototype.includes
Includes(list, x) == \E i \in 1..Len(list) : list[i] = x

\* mutant: only the first configured server is consulted
OnPreToolUse_FirstServerOnly(opts, toolName) ==
    LET hasBridge == Truthy(opts.hasToolBridge)
        allowlist(server) == IF server.hasAllowedTools
                             THEN server.allowedTools ELSE << >>
    IN IF hasBridge /\ StartsWith(toolName, BridgePrefix) THEN "allow"
       ELSE IF \/ Includes(opts.allowedCliTools, Star)
               \/ Includes(opts.allowedCliTools, toolName) THEN "allow"
       ELSE IF /\ Len(opts.mcpServers) > 0
               /\ \/ Includes(allowlist(opts.mcpServers[1]), Star)
                  \/ Includes(allowlist(opts.mcpServers[1]), toolName)
            THEN "allow"
       ELSE "deny"

\* hooks.onPreToolUse: the permissionDecision it resolves to
OnPreToolUse(opts, toolName) ==
    LET hasBridge == Truthy(opts.hasToolBridge)
        allowlist(server) == IF server.hasAllowedTools
                             THEN server.allowedTools ELSE << >>
    IN IF hasBridge /\ StartsWith(toolName, BridgePrefix) THEN "allow"
       ELSE IF \/ Includes(opts.allowedCliTools, Star)
               \/ Includes(opts.allowedCliTools, toolName) THEN "allow"
       ELSE IF \E i \in 1..Len(opts.mcpServers) :
                  \/ Includes(allowlist(opts.mcpServers[i]), Star)
                  \/ Includes(allowlist(opts.mcpServers[i]), toolName)
            THEN "allow"
       ELSE "deny"

CallCreateSessionConfig ==
    \E b \in HookInputs.hasToolBridge, cli \in HookInputs.allowedCliTools,
       servers \in HookInputs.mcpServers :
        /\ sessionOpts' = [hasToolBridge |-> b, allowedCliTools |-> cli,
                           mcpServers |-> servers]
        /\ hookCall' = NoCall
        /\ UNCHANGED <<proc, shim, closedCalls, bridgeVars, histVars, serverVars, managerVars>>

CallOnPreToolUse ==
    \E toolName \in HookInputs.toolNames :
        /\ hookCall' = [toolName |-> toolName,
                        decision |-> OnPreToolUse(sessionOpts, toolName)]
        /\ UNCHANGED <<sessionOpts, proc, shim, closedCalls,
                       bridgeVars, histVars, serverVars,
                       managerVars>>

NextHook ==
    \/ CallCreateSessionConfig
    \/ CallOnPreToolUse

SpecHook == Init /\ [][NextHook]_vars

----
(***************************************************************************)
(* The process: main up to app.listen, then the signal handlers.  Each     *)
(* signal starts a run of shutdown(); process.exit ends everything.        *)
(***************************************************************************)

\* process.exit(code)
Exit(p, code) == [p EXCEPT !.exited = TRUE, !.exitCode = code]

\* mutant: the forced exit reports a failure
TimeoutWins_ExitsOne(p, k) ==
    Exit([p EXCEPT !.shutdowns[k].timer = "fired",
                   !.shutdowns[k].pc = "done"], 1)

\* the 3-second timer settles the race: process.exit(0)
TimeoutWins(p, k) ==
    Exit([p EXCEPT !.shutdowns[k].timer = "fired",
                   !.shutdowns[k].pc = "done"], 0)

\* main reaches app.listen
Listen ==
    \E autoPatch \in BOOLEAN :
        /\ ~proc.listening
        /\ proc' = [proc EXCEPT !.listening = TRUE, !.autoPatch = autoPatch,
                                !.listener = "open"]
        /\ UNCHANGED <<shim, closedCalls, hookVars, bridgeVars, histVars, serverVars,
                       managerVars>>

\* SIGINT or SIGTERM: onSignal starts a run of shutdown(), which goes up to
\* its first await: restoreSettings with autoPatch, app.close() without.
\* A run is where it stands, the promises of its app.close() and
\* service.stop() calls, and its 3-second timer.
Signal ==
    \E signal \in {"SIGINT", "SIGTERM"} :
        /\ proc.listening /\ ~proc.exited
        /\ Len(proc.shutdowns) < MaxSignals
        /\ proc' = [proc EXCEPT !.shutdowns = Append(@,
                        [signal |-> signal,
                         pc |-> IF proc.autoPatch THEN "restoring"
                                ELSE "closing",
                         close |-> IF proc.autoPatch THEN "none"
                                   ELSE "pending",
                         stop |-> "none", timer |-> "none"])]
        /\ UNCHANGED <<shim, closedCalls, hookVars, bridgeVars, histVars, serverVars,
                       managerVars>>

\* restoreSettings settles; a failure is logged; app.close() is called
RestoreSettles(k) ==
    /\ k <= Len(proc.shutdowns) /\ ~proc.exited
    /\ proc.shutdowns[k].pc = "restoring"
    /\ proc' = [proc EXCEPT !.shutdowns[k].pc = "closing",
                            !.shutdowns[k].close = "pending"]
    /\ UNCHANGED <<shim, closedCalls, hookVars, bridgeVars, histVars, serverVars, managerVars>>

\* app.close() settles.  Resolved: the listener is closed, service.stop() is
\* called and the timer is started.  Rejected: shutdown rejects and
\* onSignal's catch exits with 1.
CloseSettles(k) ==
    /\ k <= Len(proc.shutdowns) /\ ~proc.exited
    /\ proc.shutdowns[k].pc = "closing"
    /\ \/ proc' = [proc EXCEPT !.listener = "closed",
                               !.shutdowns[k].pc = "racing",
                               !.shutdowns[k].close = "resolved",
                               !.shutdowns[k].stop = "pending",
                               !.shutdowns[k].timer = "armed"]
       \/ proc' = Exit([proc EXCEPT !.shutdowns[k].pc = "done",
                                    !.shutdowns[k].close = "rejected"], 1)
    /\ UNCHANGED <<shim, closedCalls, hookVars, bridgeVars, histVars, serverVars, managerVars>>

\* service.stop() settles before the timer.  Resolved: "Clean shutdown
\* complete" and process.exit(0).  Rejected: the race rejects and onSignal's
\* catch exits with 1.
StopSettles(k) ==
    /\ k <= Len(proc.shutdowns) /\ ~proc.exited
    /\ proc.shutdowns[k].stop = "pending"
    /\ \/ proc' = Exit([proc EXCEPT !.shutdowns[k].stop = "resolved",
                                    !.shutdowns[k].pc = "done"], 0)
       \/ proc' = Exit([proc EXCEPT !.shutdowns[k].stop = "rejected",
                                    !.shutdowns[k].pc = "done"], 1)
    /\ UNCHANGED <<shim, closedCalls, hookVars, bridgeVars, histVars, serverVars, managerVars>>

\* the 3 seconds elapse with service.stop() still pending
ShutdownTimeout(k) ==
    /\ k <= Len(proc.shutdowns) /\ ~proc.exited
    /\ proc.shutdowns[k].timer = "armed"
    /\ proc' = TimeoutWins(proc, k)
    /\ UNCHANGED <<shim, closedCalls, hookVars, bridgeVars, histVars, serverVars, managerVars>>

NextProcess ==
    \/ Listen
    \/ Signal
    \/ \E k \in 1..MaxSignals : RestoreSettles(k)
    \/ \E k \in 1..MaxSignals : CloseSettles(k)
    \/ \E k \in 1..MaxSignals : StopSettles(k)
    \/ \E k \in 1..MaxSignals : ShutdownTimeout(k)

\* restoreSettings and app.close() settle and timers fire; nothing makes
\* service.stop() settle
SpecProcessFair ==
    /\ Init
    /\ [][NextProcess]_vars
    /\ \A k \in 1..MaxSignals :
           /\ WF_vars(RestoreSettles(k))
           /\ WF_vars(CloseSettles(k))
           /\ WF_vars(ShutdownTimeout(k))

----
(***************************************************************************)
(* The bridge route POST /internal/tool-call seen from its connection: the *)
(* calls on the ToolBridgeState in any order, and the shim closing the     *)
(* connection of a request that is still waiting for its answer.           *)
(***************************************************************************)

\* mutant: a closed connection takes its entry out of pendingByCallId
ToolCallClose_RemovesEntry(s, r) ==
    [s EXCEPT !.pendingByCallId = Remove(@, s.mcp[r].id),
              !.mcp[r] = ClearTimeout(@)]

\* what the close of the connection does to the state: the route registers
\* no close handler, so nothing
ToolCallClose(s, r) == s

\* the shim's connection closes while the handler awaits its promise
ToolCallDisconnect(r) ==
    /\ mcp[r].called /\ ~Settled(mcp[r])
    /\ r \notin closedCalls
    /\ closedCalls' = closedCalls \cup {r}
    /\ Commit(ToolCallClose(St, r))
    /\ lastOp' = [op |-> "close", req |-> r]
    /\ UNCHANGED <<counters, regLog, bindLog, popped, serverVars,
                   managerVars, hookVars, proc, shim>>

NextRoute ==
    \/ CallRegisterExpected
    \/ CallRegisterMCPRequest
    \/ \E r \in MCPReqs : ToolCallDisconnect(r)
    \/ CallResolveToolCall
    \/ TimerFires
    \/ CallMarkSessionInactive
    \/ CallCleanup

SpecRoute == Init /\ [][NextRoute]_vars

----
(***************************************************************************)
(* The MCP passthrough (scripts/mcp-passthrough.mjs): a stdio process that *)
(* reads one JSON-RPC message per line and writes replies to stdout.       *)
(***************************************************************************)

\* What a line of stdin is to the handler: text JSON.parse rejects, the JSON
\* null, another JSON scalar, or an object with or without id and method.
\* Destructuring a scalar gives undefined for id and method.
ShimLines ==
    LET RpcIds == {"undefined", "null", "7"}
        Methods == {"initialize", "notifications/initialized", "tools/list",
                    "tools/call", "ping", "undefined"}
    IN [parse : {"invalid", "null", "scalar"}, id : {"undefined"},
        method : {"undefined"}]
       \cup [parse : {"object"}, id : RpcIds, method : Methods]

\* mutant: the result is written without the request's id
Respond_DropsId(sh, id) ==
    [sh EXCEPT !.stdout = Append(@, [id |-> "undefined", kind |-> "result",
                                     code |-> 0])]

\* respond(id, result): one line on stdout
Respond(sh, id) ==
    [sh EXCEPT !.stdout = Append(@, [id |-> id, kind |-> "result", code |-> 0])]

\* respondError(id, code, message): one line on stdout
RespondError(sh, id, code) ==
    [sh EXCEPT !.stdout = Append(@, [id |-> id, kind |-> "error",
                                     code |-> code])]

\* mutant: the initialized notification is answered like an unknown method
ReadLine_AnswersNotifications(sh, line) ==
    IF line.parse = "invalid" THEN sh
    ELSE IF line.parse = "null" THEN [sh EXCEPT !.exited = TRUE]
    ELSE CASE line.method = "initialize" -> Respond(sh, line.id)
           [] line.method \in {"tools/list", "tools/call"} ->
                [sh EXCEPT !.fetches = Append(@, [id |-> line.id,
                                                  method |-> line.method])]
           [] OTHER -> IF line.id # "undefined"
                       THEN RespondError(sh, line.id, -32601)
                       ELSE sh

\* reader.on("line"): a line JSON.parse rejects is logged and dropped;
\* destructuring null throws out of the handler and ends the process; the
\* switch answers initialize at once, starts a fetch for tools/list and
\* tools/call, and answers any other method only when the message has an id.
ReadLine(sh, line) ==
    IF line.parse = "invalid" THEN sh
    ELSE IF line.parse = "null" THEN [sh EXCEPT !.exited = TRUE]
    ELSE CASE line.method = "initialize" -> Respond(sh, line.id)
           [] line.method = "notifications/initialized" -> sh
           [] line.method \in {"tools/list", "tools/call"} ->
                [sh EXCEPT !.fetches = Append(@, [id |-> line.id,
                                                  method |-> line.method])]
           [] OTHER -> IF line.id # "undefined"
                       THEN RespondError(sh, line.id, -32601)
                       ELSE sh

ShimReadLine ==
    \E line \in ShimLines :
        /\ ~shim.exited /\ shim.lines < MaxLines
        /\ shim' = [ReadLine(shim, line) EXCEPT !.lines = @ + 1]
        /\ lastOp' = [op |-> "line", line |-> line]
        /\ UNCHANGED <<bridgeVars, counters, regLog, bindLog, popped,
                       serverVars, managerVars, hookVars, proc,
                       closedCalls>>

\* handleToolsList / handleToolsCall after their await: the fetch to the
\* server settles with a 2xx reply, another status, or a failure
ShimFetchSettles ==
    \E i \in 1..Len(shim.fetches), outcome \in {"ok", "notOk", "throws"} :
        LET f == shim.fetches[i]
            rest == [shim EXCEPT !.fetches = SubSeq(@, 1, i - 1)
                                             \o SubSeq(@, i + 1, Len(@))]
        IN /\ ~shim.exited
           /\ shim' = IF outcome = "ok" THEN Respond(rest, f.id)
                      ELSE RespondError(rest, f.id, -32603)
           /\ lastOp' = [op |-> "fetch", method |-> f.method,
                         outcome |-> outcome]
           /\ UNCHANGED <<bridgeVars, counters, regLog, bindLog, popped,
                          serverVars, managerVars, hookVars, proc,
                       closedCalls>>

\* SIGTERM or SIGINT: process.exit(0)
ShimSignal ==
    /\ ~shim.exited
    /\ shim' = [shim EXCEPT !.exited = TRUE]
    /\ lastOp' = [op |-> "signal"]
    /\ UNCHANGED <<bridgeVars, counters, regLog, bindLog, popped,
                   serverVars, managerVars, hookVars, proc,
                       closedCalls>>

NextShim ==
    \/ ShimReadLine
    \/ ShimFetchSettles
    \/ ShimSignal

SpecShim == Init /\ [][NextShim]_vars

----
(***************************************************************************)
(* The server: POST /v1/messages, the bridge route POST /internal/tool-call,*)
(* the streaming transform of each session, reply close events and timers, *)
(* all on the one ToolBridgeState the provider registers.                  *)
(***************************************************************************)

\* one SSE frame; session is the request whose session emitted it
Frame(type, id, session) == [type |-> type, id |-> id, session |-> session]

\* the tool_use ids the client has been shown so far
ToolUseIds(frames) ==
    {frames[i].id : i \in {j \in 1..Len(frames) : frames[j].type = "tool_use"}}

Advertised == UNION {ToolUseIds(msg[m].frames) : m \in MsgReqs}

\* the tools Xcode sends with its requests
XcodeTools == <<MakeTool(<<"R", "e", "a", "d">>), MakeTool(<<"W", "r", "i", "t", "e">>)>>
ToolLists == {NoTools, <<MakeTool(<<"R", "e", "a", "d">>)>>, XcodeTools}

\* the request bodies of Xcode that pass validation: a fresh conversation
\* whose last message is a plain-string user message, or a last user message
\* carrying one tool_result block for a tool_use the client was shown
Bodies ==
    {[kind |-> "fresh", id |-> NoId, content |-> "", tools |-> XcodeTools]}
        \cup {[kind |-> "toolResult", id |-> id, content |-> c,
                tools |-> XcodeTools] : id \in Advertised, c \in Contents}

\* sendSSEEvent on the reply attached to the state, if any
WriteFrame(msgs, s, frame) ==
    IF s.reply = NoReply THEN msgs
    ELSE [msgs EXCEPT ![s.reply].frames = Append(@, frame)]

\* startReply: the SSE headers and message_start
StartReply(msgs, m, session) ==
    [msgs EXCEPT ![m].status = 200,
                 ![m].frames = Append(@, Frame("message_start", NoId, session))]

\* resolveToolResults: resolveToolCall for each tool_result block of the
\* last user message
ResolveToolResults(s, body) ==
    IF body.kind = "toolResult" THEN ResolveToolCall(s, body.id, body.content)
    ELSE s

\* the tool_result names a call whose bridge request is parked
Parked(s, body) ==
    body.kind = "toolResult" /\ body.id \in DOMAIN s.pendingByCallId

IsContinuation(s) == HasPending(s) \/ s.sessionActive

\* POST /internal/tool-call after its await: once the promise has settled the
\* continuation runs as a microtask, before any other handler: reply.send of
\* {content: result}, or the rejection leaves the handler and the route
\* answers 500
RouteAnswers(s) ==
    [r \in MCPReqs |->
        IF ~Settled(s.mcp[r]) THEN NoAnswer
        ELSE IF s.mcp[r].outcome[1] = "ok"
             THEN [status |-> 200, content |-> s.mcp[r].outcome[2]]
             ELSE [status |-> 500, content |-> ""]]

\* req.messages.length of a body: a tool_result follows the user's message
\* and the assistant's tool_use; the other bodies hold one message
MessageCount(kind) == IF kind = "toolResult" THEN 3 ELSE 1

\* The values sentMessageCount may hold after a step that took the
\* requests from msgs0 to msgs1.  A handler that returns from its await of
\* waitForStreamingDone or of the streaming transform assigns
\* req.messages.length; when two return in the same turn of the event loop
\* either may be the last to assign.
Recorded(msgs0, msgs1, count) ==
    LET returned == {k \in MsgReqs : /\ msgs0[k].pc \in {"waiting", "streaming"}
                                     /\ msgs1[k].pc = "done"}
    IN IF returned = {} THEN {count}
       ELSE {MessageCount(msgs1[k].kind) : k \in returned}

\* handleMessages after await state.waitForStreamingDone(): it returns in the
\* microtask that follows the notify
ResumeWoken(msgs, s) ==
    [m \in MsgReqs |->
        IF m \in s.woken /\ msgs[m].pc = "waiting"
        THEN [msgs[m] EXCEPT !.pc = "done"] ELSE msgs[m]]

\* handleMessages up to its first await (or its return), for a request the
\* onRequest hook let through
HandleMessages(h, body) ==
    LET m == nextMsg
        q == [msg[m] EXCEPT !.ua = h, !.route = "/v1/messages",
                            !.kind = body.kind, !.id = body.id,
                            !.content = body.content, !.tools = body.tools]
    IN /\ m \in MsgReqs
       /\ nextMsg' = m + 1
       /\ IF body.kind = "malformed"
          THEN /\ Commit(St)
               /\ msg' = [msg EXCEPT ![m] =
                             [q EXCEPT !.pc = "done", !.status = 400]]
               /\ UNCHANGED toolCall
          ELSE IF IsContinuation(St)
          THEN LET s1 == SetReply(St, m)
                   s2 == ResolveToolResults(s1, body)
                   s3 == WaitForStreamingDone(s2, m)
                   msgs == [msg EXCEPT ![m] =
                               [q EXCEPT !.pc = "waiting",
                                         !.path = "continuation",
                                         !.parked = Parked(St, body),
                                         !.closeHandler = TRUE]]
               IN /\ Commit(s3)
                  /\ msg' = StartReply(msgs, m, NoReply)
                  /\ toolCall' = RouteAnswers(s3)
          ELSE LET s1 == IF Len(body.tools) > 0
                         THEN CacheTools(St, body.tools) ELSE St
                   q1 == [q EXCEPT !.path = "new", !.touched = (s1 # St)]
               IN /\ Commit(s1)
                  /\ msg' = [msg EXCEPT ![m] =
                                IF body.kind = "unformattable"
                                THEN [q1 EXCEPT !.pc = "done", !.status = 400]
                                ELSE [q1 EXCEPT !.pc = "listModels"]]
                  /\ UNCHANGED toolCall
       /\ UNCHANGED <<counters, logVars, sessionsCreated, sentMessageCount, managerVars, auxVars>>

\* POST /v1/messages of Xcode with a body that passes validation
MessagesPost == \E body \in Bodies : HandleMessages(XcodeUA, body)

\* the value the hook reads: request.headers["user-agent"] ?? ""
UserAgentOf(h) == IF h.present THEN h.value ELSE << >>

\* mutant: a request without the header is let through
OnRequestAllows_MissingAllowed(h) ==
    \/ ~h.present
    \/ StartsWith(UserAgentOf(h), XcodePrefix)

\* app.addHook("onRequest"): lets the request through to its route
OnRequestAllows(h) == StartsWith(UserAgentOf(h), XcodePrefix)

Routes == {"/v1/models", "/v1/messages"}

\* a request the hook answers itself: 403 {"error":"Forbidden"}, and the
\* route's handler never runs
HookRejects ==
    \E h \in UserAgents, route \in Routes :
        LET m == nextMsg
        IN /\ ~OnRequestAllows(h)
           /\ m \in MsgReqs
           /\ nextMsg' = m + 1
           /\ msg' = [msg EXCEPT ![m] =
                         [@ EXCEPT !.pc = "done", !.ua = h, !.route = route,
                                   !.status = 403]]
           /\ UNCHANGED <<bridgeVars, histVars, toolCall, sessionsCreated, sentMessageCount,
                          managerVars, auxVars>>

\* GET /v1/models of a client the hook let through
ModelsGet ==
    \E h \in UserAgents :
        LET m == nextMsg
        IN /\ OnRequestAllows(h)
           /\ m \in MsgReqs
           /\ nextMsg' = m + 1
           /\ msg' = [msg EXCEPT ![m] =
                         [@ EXCEPT !.pc = "done", !.ua = h,
                                   !.route = "/v1/models", !.status = 200]]
           /\ UNCHANGED <<bridgeVars, histVars, toolCall, sessionsCreated, sentMessageCount,
                          managerVars, auxVars>>

\* the bodies any client may post: one that fails schema validation, one
\* whose prompt cannot be formatted, and fresh conversations with each tool
\* list
AnyBodies ==
    {[kind |-> "malformed", id |-> NoId, content |-> "", tools |-> NoTools]}
        \cup {[kind |-> k, id |-> NoId, content |-> "", tools |-> t] :
                  k \in {"fresh", "unformattable"}, t \in ToolLists}

\* POST /v1/messages of any client with any body
AnyMessagesPost ==
    \E h \in UserAgents, body \in AnyBodies :
        /\ OnRequestAllows(h)
        /\ HandleMessages(h, body)

\* await service.listModels() returns and resolveModel finds the model (or
\* listModels throws and the model is passed through)
ListModelsReturns(m) ==
    /\ msg[m].pc = "listModels"
    /\ msg' = [msg EXCEPT ![m].pc = "getSession"]
    /\ UNCHANGED <<bridgeVars, histVars, toolCall, sessionsCreated, sentMessageCount, nextMsg, managerVars, auxVars>>

\* resolveModel finds no model: 400
ModelNotAvailable(m) ==
    /\ msg[m].pc = "listModels"
    /\ msg' = [msg EXCEPT ![m].pc = "done", ![m].status = 400]
    /\ UNCHANGED <<bridgeVars, histVars, toolCall, sessionsCreated, sentMessageCount, nextMsg, managerVars, auxVars>>

\* await service.getSession() throws: 500
GetSessionFails(m) ==
    /\ msg[m].pc = "getSession"
    /\ msg' = [msg EXCEPT ![m].pc = "done", ![m].status = 500]
    /\ UNCHANGED <<bridgeVars, histVars, toolCall, sessionsCreated, sentMessageCount, nextMsg, managerVars, auxVars>>

\* await service.getSession() returns: setReply, and the streaming transform
\* starts (message_start on the attached reply, markSessionActive)
GetSessionReturns(m) ==
    /\ msg[m].pc = "getSession"
    /\ sessionsCreated < MaxSessions
    /\ sessionsCreated' = sessionsCreated + 1
    /\ LET s1 == SetReply(St, m)
           s2 == MarkSessionActive(s1)
       IN /\ Commit(s2)
          /\ msg' = [StartReply(msg, s1.reply, m) EXCEPT ![m].pc = "streaming"]
    /\ UNCHANGED <<counters, logVars, toolCall, sentMessageCount, nextMsg,
                   managerVars, auxVars>>

\* the session of request m announces a tool call: registerExpected, then
\* the content_block_start of the tool_use block
SessionToolUse(m) ==
    \E name \in Names :
        /\ msg[m].pc = "streaming"
        /\ nextId <= MaxToolUse
        /\ nextId' = nextId + 1
        /\ Commit(RegisterExpected(St, nextId, name))
        /\ msg' = WriteFrame(msg, St, Frame("tool_use", nextId, m))
        /\ UNCHANGED <<nextReq, logVars, toolCall, sessionsCreated, sentMessageCount, nextMsg, managerVars, auxVars>>

\* the session of request m goes idle: message_delta, message_stop,
\* markSessionInactive, notifyStreamingDone; handleMessages returns
SessionIdle(m) ==
    /\ msg[m].pc = "streaming"
    /\ LET s == NotifyStreamingDone(MarkSessionInactive(St))
           m1 == WriteFrame(msg, St, Frame("message_delta", NoId, m))
           m2 == WriteFrame(m1, St, Frame("message_stop", NoId, m))
       IN /\ Commit(s)
          /\ msg' = ResumeWoken([m2 EXCEPT ![m].pc = "done"], s)
          /\ toolCall' = RouteAnswers(s)
    /\ sentMessageCount' \in Recorded(msg, msg', sentMessageCount)
    /\ UNCHANGED <<counters, logVars, sessionsCreated, nextMsg, managerVars, auxVars>>

\* the session of request m reports an error: markSessionErrored, the error
\* frame, then the terminal cleanup of the idle case
SessionError(m) ==
    /\ msg[m].pc = "streaming"
    /\ LET s == NotifyStreamingDone(MarkSessionInactive(MarkSessionErrored(St)))
           m1 == WriteFrame(msg, St, Frame("error", NoId, m))
       IN /\ Commit(s)
          /\ msg' = ResumeWoken([m1 EXCEPT ![m].pc = "done"], s)
          /\ toolCall' = RouteAnswers(s)
    /\ sentMessageCount' \in Recorded(msg, msg', sentMessageCount)
    /\ UNCHANGED <<counters, logVars, sessionsCreated, nextMsg, managerVars, auxVars>>

\* mutant: the close handler does not ask whether its reply is still current
ReplyClose_AnyReply(m) ==
    /\ msg[m].closeHandler
    /\ LET s == NotifyStreamingDone(Cleanup(St))
       IN /\ Commit(s)
          /\ msg' = ResumeWoken([msg EXCEPT ![m].closeHandler = FALSE], s)
          /\ toolCall' = RouteAnswers(s)
    /\ sentMessageCount' \in Recorded(msg, msg', sentMessageCount)
    /\ UNCHANGED <<counters, logVars, sessionsCreated, nextMsg, managerVars, auxVars>>

\* reply.raw.on("close") of a continuation reply
ReplyClose(m) ==
    /\ msg[m].closeHandler
    /\ IF reply = m
       THEN LET s == NotifyStreamingDone(Cleanup(St))
            IN /\ Commit(s)
               /\ msg' = ResumeWoken([msg EXCEPT ![m].closeHandler = FALSE], s)
               /\ toolCall' = RouteAnswers(s)
       ELSE /\ msg' = [msg EXCEPT ![m].closeHandler = FALSE]
            /\ UNCHANGED <<bridgeVars, toolCall>>
    /\ sentMessageCount' \in Recorded(msg, msg', sentMessageCount)
    /\ UNCHANGED <<counters, logVars, sessionsCreated, nextMsg, managerVars, auxVars>>

\* POST /internal/tool-call with a valid body: the reply is parked on
\* registerMCPRequest (and answered at once when that rejects)
ToolCallPost ==
    \E name \in Names :
        /\ nextReq <= MaxToolCallPosts
        /\ nextReq' = nextReq + 1
        /\ LET s == RegisterMCPRequest(St, name, nextReq)
           IN Commit(s) /\ toolCall' = RouteAnswers(s)
        /\ UNCHANGED <<nextId, logVars, msg, sessionsCreated, sentMessageCount, nextMsg, managerVars, auxVars>>

\* the 5-minute timer of a parked tool call fires
ToolCallTimeout(r) ==
    /\ mcp[r].timer = "armed"
    /\ LET s == TimeoutClosure(St, r)
       IN Commit(s) /\ toolCall' = RouteAnswers(s)
    /\ UNCHANGED <<counters, logVars, msg, sessionsCreated, sentMessageCount, nextMsg, managerVars, auxVars>>

NextServer ==
    \/ MessagesPost
    \/ \E m \in MsgReqs : ListModelsReturns(m)
    \/ \E m \in MsgReqs : ModelNotAvailable(m)
    \/ \E m \in MsgReqs : GetSessionFails(m)
    \/ \E m \in MsgReqs : GetSessionReturns(m)
    \/ \E m \in MsgReqs : SessionToolUse(m)
    \/ \E m \in MsgReqs : SessionIdle(m)
    \/ \E m \in MsgReqs : SessionError(m)
    \/ \E m \in MsgReqs : ReplyClose(m)
    \/ ToolCallPost
    \/ \E r \in MCPReqs : ToolCallTimeout(r)

SpecServer == Init /\ [][NextServer]_vars

\* the continuation path of handleMessages on a state whose session is
\* running: the session is marked active, announces tool calls, reports an
\* error and is marked inactive; the shim posts the calls, Xcode posts its
\* requests, replies close and timers fire
NextClose ==
    \/ CallMarkSessionActive
    \/ CallMarkSessionErrored
    \/ CallMarkSessionInactive
    \/ CallRegisterExpected
    \/ ToolCallPost
    \/ MessagesPost
    \/ \E m \in MsgReqs : ReplyClose(m)
    \/ \E r \in MCPReqs : ToolCallTimeout(r)

SpecClose == Init /\ [][NextClose]_vars

----
(***************************************************************************)
(* The body of POST /internal/tool-call: what the shim, or anything else   *)
(* on the loopback interface, may send, and what the route's schema makes  *)
(* of it.                                                                  *)
(***************************************************************************)

\* mutant: the schema looks at the name only
ToolCallBodySchema_NameOnly ==
    LET Fields == [type : {"undefined", "number"}, text : {""}]
                      \cup [type : {"string"}, text : {""} \cup Names]
        Arguments == {"undefined", "null", "string", "array", "object"}
    IN [body \in [name : Fields, arguments : Arguments] |->
           body.name.type = "string" /\ body.name.text # ""]

\* ToolCallBodySchema.safeParse(request.body).success, for every body of the
\* domain: name is z.string().min(1), arguments is z.record(z.string(),
\* z.unknown()), which takes an object and neither null, a string nor an array
ToolCallBodySchema ==
    LET Fields == [type : {"undefined", "number"}, text : {""}]
                      \cup [type : {"string"}, text : {""} \cup Names]
        Arguments == {"undefined", "null", "string", "array", "object"}
    IN [body \in [name : Fields, arguments : Arguments] |->
           /\ body.name.type = "string" /\ body.name.text # ""
           /\ body.arguments = "object"]

\* POST /internal/tool-call with any body: 400 with the first issue's
\* message when safeParse fails, else the promise around registerMCPRequest
\* (status 0: the validation has not answered)
ToolCallBodyPost ==
    \E body \in DOMAIN ToolCallBodySchema :
        IF ToolCallBodySchema[body]
        THEN /\ nextReq <= MaxToolCallPosts
             /\ nextReq' = nextReq + 1
             /\ LET s == RegisterMCPRequest(St, body.name.text, nextReq)
                IN Commit(s) /\ toolCall' = RouteAnswers(s)
             /\ lastOp' = [op |-> "tool-call", body |-> body, req |-> nextReq,
                           status |-> 0]
             /\ UNCHANGED <<nextId, regLog, bindLog, popped, msg,
                            sessionsCreated, sentMessageCount, nextMsg,
                            managerVars, auxVars>>
        ELSE /\ lastOp' = [op |-> "tool-call", body |-> body, req |-> 0,
                           status |-> 400]
             /\ UNCHANGED <<bridgeVars, counters, regLog, bindLog, popped,
                            serverVars, managerVars, auxVars>>

NextPost ==
    \/ CallRegisterExpected
    \/ ToolCallBodyPost
    \/ CallResolveToolCall
    \/ TimerFires
    \/ CallMarkSessionInactive

SpecPost == Init /\ [][NextPost]_vars

\* the public routes behind the onRequest hook, with every kind of client
\* and body
NextFront ==
    \/ HookRejects
    \/ ModelsGet
    \/ AnyMessagesPost
    \/ \E m \in MsgReqs : ListModelsReturns(m)
    \/ \E m \in MsgReqs : ModelNotAvailable(m)
    \/ \E m \in MsgReqs : GetSessionFails(m)
    \/ \E m \in MsgReqs : GetSessionReturns(m)
    \/ \E m \in MsgReqs : SessionToolUse(m)
    \/ \E m \in MsgReqs : SessionIdle(m)
    \/ \E m \in MsgReqs : SessionError(m)

SpecFront == Init /\ [][NextFront]_vars


----
(***************************************************************************)
(* ConversationManager: the registered conversations, each with a          *)
(* ToolBridgeState of its own, and the lookup of the conversation an       *)
(* incoming message list continues.                                        *)
(***************************************************************************)

\* new ToolBridgeState()
NewState ==
    [cachedTools |-> NoTools, expectedByName |-> EmptyMap, pendingByCallId |-> EmptyMap,
     sessionActive |-> FALSE, hadError |-> FALSE, onSessionEnd |-> FALSE,
     reply |-> NoReply, streamingDone |-> NoWaiter, woken |-> {},
     mcp |-> [r \in MCPReqs |-> FreshMCP], endFired |-> 0]

Mgr == [conversationsById |-> conversationsById, detached |-> detached]

CommitMgr(g) ==
    /\ conversationsById' = g.conversationsById
    /\ detached' = g.detached

\* create(): a fresh state whose session-end callback removes the id
ManagerCreate(g, c) ==
    [g EXCEPT !.conversationsById =
                  Put(@, c, OnSessionEnd(NewState))]

\* remove(id): the conversation leaves the map and its state is cleaned up
\* (the callback that cleanup fires finds the id gone)
ManagerRemove(g, c) ==
    IF c \notin DOMAIN g.conversationsById THEN g
    ELSE [g EXCEPT !.conversationsById = Remove(@, c),
                   !.detached = Put(@, c, Cleanup(g.conversationsById[c]).endFired)]

\* a call on conv.state that took it from g.conversationsById[c] to s: when
\* the call fired the session-end callback, the callback ran remove(c)
StateCall(g, c, s) ==
    IF s.endFired # g.conversationsById[c].endFired
    THEN [g EXCEPT !.conversationsById = Remove(@, c),
                   !.detached = Put(@, c, Cleanup(s).endFired)]
    ELSE [g EXCEPT !.conversationsById[c] = s]

\* content blocks of a message
TextBlock == [type |-> "text", tool_use_id |-> NoId]
ToolResultBlock(id) == [type |-> "tool_result", tool_use_id |-> id]
\* the ids tool_result blocks name: announced ones, and one never announced
ResultIds == {1, 2}
Blocks == {TextBlock} \cup {ToolResultBlock(id) : id \in ResultIds}

\* a message: plain tells a string content from an array of blocks
BlockArrays ==
    {<< >>} \cup {<<b>> : b \in Blocks}
            \cup {<<p[1], p[2]>> :
                     p \in {q \in Blocks \X (Blocks \ {TextBlock}) :
                                q[1] # q[2]}}
Messages ==
    [role : {"user", "assistant"}, plain : {TRUE}, blocks : {<< >>}]
        \cup [role : {"user"}, plain : {FALSE}, blocks : BlockArrays]
        \cup [role : {"assistant"}, plain : {FALSE},
               blocks : {<<ToolResultBlock(1)>>}]
\* an earlier message of the list, which the lookup does not read
Earlier == [role |-> "user", plain |-> FALSE, blocks |-> <<ToolResultBlock(1)>>]
MessageLists ==
    {<< >>} \cup {<<m>> : m \in Messages} \cup {<<Earlier, m>> : m \in Messages}

\* the tool_use_id of the tool_result blocks of a content array
ToolResultIds(blocks) ==
    {blocks[i].tool_use_id :
        i \in {j \in 1..Len(blocks) : blocks[j].type = "tool_result"}}

Holders(g, ids) ==
    {c \in DOMAIN g.conversationsById :
        \E id \in ids : HasPendingToolCall(g.conversationsById[c], id)}

Active(g) ==
    {c \in DOMAIN g.conversationsById : g.conversationsById[c].sessionActive}

\* findByContinuation(messages): the conversations it can return (NoConv for
\* undefined).  Which holder is returned when several hold an id, which
\* active conversation the fallback returns, and whether the fallback is
\* tried when the last message has no tool_result block, are left open.
FindByContinuation(g, messages) ==
    IF Len(messages) = 0 THEN {NoConv}
    ELSE LET last == messages[Len(messages)]
             ids == ToolResultIds(last.blocks)
         IN IF last.role # "user" THEN {NoConv}
            ELSE IF last.plain THEN {NoConv}
            ELSE IF Holders(g, ids) # {} THEN Holders(g, ids)
            ELSE IF ids = {} THEN {NoConv} \cup Active(g)
            ELSE IF Active(g) # {} THEN Active(g)
            ELSE {NoConv}

CallCreate ==
    /\ nextConv <= MaxConvs
    /\ CommitMgr(ManagerCreate(Mgr, nextConv))
    /\ nextConv' = nextConv + 1
    /\ lastMgr' = [op |-> "create"]
    /\ UNCHANGED <<auxVars, bridgeVars, histVars, serverVars>>

CallRemove ==
    \E c \in ConvIds :
        /\ CommitMgr(ManagerRemove(Mgr, c))
        /\ lastMgr' = [op |-> "remove", conv |-> c]
        /\ UNCHANGED <<auxVars, bridgeVars, histVars, serverVars, nextConv>>

ConvRegisterExpected ==
    \E c \in DOMAIN conversationsById, name \in Names :
        /\ nextId <= MaxConvToolUse
        /\ nextId' = nextId + 1
        /\ CommitMgr(StateCall(Mgr, c,
               RegisterExpected(conversationsById[c], nextId, name)))
        /\ lastMgr' = [op |-> "registerExpected"]
        /\ UNCHANGED <<auxVars, bridgeVars, nextReq, logVars, serverVars, nextConv>>

ConvRegisterMCPRequest ==
    \E c \in DOMAIN conversationsById, name \in Names :
        /\ nextReq <= MaxConvToolCalls
        /\ nextReq' = nextReq + 1
        /\ CommitMgr(StateCall(Mgr, c,
               RegisterMCPRequest(conversationsById[c], name, nextReq)))
        /\ lastMgr' = [op |-> "registerMCPRequest"]
        /\ UNCHANGED <<auxVars, bridgeVars, nextId, logVars, serverVars, nextConv>>

ConvResolveToolCall ==
    \E c \in DOMAIN conversationsById, result \in Contents :
        \E id \in DOMAIN conversationsById[c].pendingByCallId :
            /\ CommitMgr(StateCall(Mgr, c,
                   ResolveToolCall(conversationsById[c], id, result)))
            /\ lastMgr' = [op |-> "resolveToolCall"]
            /\ UNCHANGED <<auxVars, bridgeVars, histVars, serverVars, nextConv>>

ConvMarkSessionActive ==
    \E c \in DOMAIN conversationsById :
        /\ CommitMgr(StateCall(Mgr, c, MarkSessionActive(conversationsById[c])))
        /\ lastMgr' = [op |-> "markSessionActive"]
        /\ UNCHANGED <<auxVars, bridgeVars, histVars, serverVars, nextConv>>

ConvMarkSessionInactive ==
    \E c \in DOMAIN conversationsById :
        /\ CommitMgr(StateCall(Mgr, c,
               MarkSessionInactive(conversationsById[c])))
        /\ lastMgr' = [op |-> "markSessionInactive", conv |-> c]
        /\ UNCHANGED <<auxVars, bridgeVars, histVars, serverVars, nextConv>>

ConvCleanup ==
    \E c \in DOMAIN conversationsById :
        /\ CommitMgr(StateCall(Mgr, c, Cleanup(conversationsById[c])))
        /\ lastMgr' = [op |-> "cleanup", conv |-> c]
        /\ UNCHANGED <<auxVars, bridgeVars, histVars, serverVars, nextConv>>

NextManager ==
    \/ CallCreate
    \/ CallRemove
    \/ ConvRegisterExpected
    \/ ConvRegisterMCPRequest
    \/ ConvResolveToolCall
    \/ ConvMarkSessionActive
    \/ ConvMarkSessionInactive
    \/ ConvCleanup

SpecManager == Init /\ [][NextManager]_vars

TypeOK ==
    /\ DOMAIN expectedByName \subseteq Names
    /\ \A n \in DOMAIN expectedByName : Range(expectedByName[n]) \subseteq Ids
    /\ DOMAIN pendingByCallId \subseteq Ids
    /\ sessionActive \in BOOLEAN /\ hadError \in BOOLEAN
    /\ onSessionEnd \in BOOLEAN
    /\ endFired \in 0..2
    /\ nextReq \in 1..(MaxMCPReq + 1)
    /\ nextId \in 1..(MaxIds + 1)

----
(***************************************************************************)
(* Properties of one ToolBridgeState under any order of calls (Spec).      *)
(***************************************************************************)

Held(r) == \E id \in DOMAIN pendingByCallId : pendingByCallId[id].req = r
NoEntries == pendingByCallId = EmptyMap /\ expectedByName = EmptyMap
Mentions(err, word) == \E i \in 1..Len(err) : err[i] = word

\* C1: every (resolve, reject) pair handed to registerMCPRequest has at most
\* one callback invoked, at most once; a pair that is not settled yet is held
\* in pendingByCallId with its timer running (so the timer settles it if
\* nothing else does); and once a pair is settled its timer no longer runs:
\* it was cleared on resolve and on a sweep, and it has fired on a timeout.
PairsSettleOnce ==
    \A r \in MCPReqs :
        mcp[r].called =>
            /\ mcp[r].resolved + mcp[r].rejected <= 1
            /\ ~Settled(mcp[r]) => (mcp[r].timer = "armed" /\ Held(r))
            /\ Settled(mcp[r]) => mcp[r].timer # "armed" /\ ~Held(r)
            /\ mcp[r].resolved = 1 => mcp[r].timer = "cleared"
            /\ mcp[r].rejected = 1 =>
                   \/ mcp[r].timer = "cleared"
                        /\ mcp[r].outcome[2] \in {ErrSessionEnded, ErrSessionCleanup}
                   \/ mcp[r].timer = "fired"
                        /\ mcp[r].outcome[2] = ErrTimedOut(mcp[r].id)
                   \/ mcp[r].timer = "none"
                        /\ mcp[r].outcome[2] = ErrNoExpected(mcp[r].name)

ResolvedAndSwept ==
    \E r1, r2 \in MCPReqs :
        /\ mcp[r1].resolved = 1 /\ mcp[r1].timer = "cleared"
        /\ mcp[r2].outcome = <<"err", ErrSessionEnded>>
        /\ mcp[r2].timer = "cleared"

\* C2: no tool-call id is in pendingByCallId and in a queue of
\* expectedByName at the same time, and every id in pendingByCallId was
\* shifted off a queue of this state by registerMCPRequest before.
PendingWasExpected ==
    /\ DOMAIN pendingByCallId \cap Queued(St) = {}
    /\ DOMAIN pendingByCallId \subseteq popped

PendingBesideExpected ==
    /\ pendingByCallId # EmptyMap
    /\ expectedByName # EmptyMap
    /\ lastOp.op = "registerMCPRequest"

\* C3 as stated: in every reachable state, sessionActive = false implies
\* that pendingByCallId and expectedByName are empty.
InactiveImpliesEmpty == ~sessionActive => NoEntries

\* C3 as amended: markSessionInactive and cleanup leave sessionActive false
\* and both maps empty, and while sessionActive stays false the maps stay
\* empty under every call but registerExpected (which does not look at
\* sessionActive and queues the id).
InactivationEmpties ==
    [][/\ lastOp'.op \in {"markSessionInactive", "cleanup"} =>
              ~sessionActive' /\ NoEntries'
       /\ (~sessionActive /\ NoEntries /\ lastOp'.op # "registerExpected") =>
              NoEntries']_vars

InactivatedWithEntries ==
    /\ lastOp.op = "markSessionInactive"
    /\ lastOp.queued # {}
    /\ lastOp.swept # {}
    /\ ~sessionActive /\ NoEntries

\* C4: right after markSessionInactive, hasPending is false and every MCP
\* request that was pending at the call has had reject invoked with
\* "Session ended".
InactiveRejectsPending ==
    lastOp.op = "markSessionInactive" =>
        /\ ~HasPending(St)
        /\ pendingByCallId = EmptyMap
        /\ \A n \in DOMAIN expectedByName : Len(expectedByName[n]) = 0
        /\ \A r \in lastOp.swept :
               /\ mcp[r].rejected = 1 /\ mcp[r].resolved = 0
               /\ mcp[r].outcome = <<"err", ErrSessionEnded>>

InactiveSweptTwo ==
    /\ lastOp.op = "markSessionInactive"
    /\ Cardinality(lastOp.swept) = 2

\* C8: per tool name the ids are bound in the order registerExpected
\* appended them: the ids bound since the queues were last cleared are the
\* first ids registered for the name since then, in the same order, and the
\* queue holds exactly the rest.
BoundInFIFOOrder ==
    \A n \in Names :
        regLog[n] = bindLog[n] \o
            (IF n \in DOMAIN expectedByName THEN expectedByName[n] ELSE << >>)

TwoBoundForOneName ==
    \E n \in Names : Len(bindLog[n]) = 2 /\ lastOp.op = "registerMCPRequest"

\* C9 as stated: when the timer of a pending call fires, the id leaves
\* pendingByCallId, reject is invoked with a "timed out" error, and
\* hasPending is false afterwards.
TimeoutLeavesNothingPending ==
    lastOp.op = "timeout" =>
        /\ lastOp.id \notin DOMAIN pendingByCallId
        /\ mcp[lastOp.req].rejected = 1
        /\ Mentions(mcp[lastOp.req].outcome[2], "timed out")
        /\ ~HasPending(St)

\* C9 as amended: when the timer of a pending call fires, the id leaves
\* pendingByCallId, reject (and never resolve) is invoked with a "timed out"
\* error, the id is no longer held by the state, and hasPending is false
\* afterwards exactly when no other id is pending or expected.
TimeoutRejectsAndEvicts ==
    [][lastOp'.op = "timeout" =>
          LET r == lastOp'.req
              id == lastOp'.id
          IN /\ id \in DOMAIN pendingByCallId
             /\ pendingByCallId' = Remove(pendingByCallId, id)
             /\ expectedByName' = expectedByName
             /\ mcp'[r].rejected = 1 /\ mcp'[r].resolved = 0
             /\ mcp'[r].outcome[1] = "err"
             /\ Mentions(mcp'[r].outcome[2], "timed out")
             /\ id \notin DOMAIN pendingByCallId'
             /\ \A n \in DOMAIN expectedByName' :
                    id \notin Range(expectedByName'[n])
             /\ HasPending(St)' <=>
                    (DOMAIN pendingByCallId # {id} \/ expectedByName # EmptyMap)
      ]_vars

TimedOutAlone ==
    /\ lastOp.op = "timeout"
    /\ ~HasPending(St)
    /\ mcp[lastOp.req].outcome = <<"err", ErrTimedOut(lastOp.id)>>

\* C10: cleanup clears the timeout of every pending MCP request and rejects
\* it with "Session cleanup", empties pendingByCallId and expectedByName,
\* sets sessionActive to false and fires the session-end callback that is
\* registered (once: the slot is null afterwards).
CleanupTearsDown ==
    [][lastOp'.op = "cleanup" =>
          /\ \A id \in DOMAIN pendingByCallId :
                 LET r == pendingByCallId[id].req
                 IN /\ mcp[r].timer = "armed" /\ mcp'[r].timer = "cleared"
                    /\ mcp'[r].rejected = 1 /\ mcp'[r].resolved = 0
                    /\ mcp'[r].outcome = <<"err", ErrSessionCleanup>>
          /\ NoEntries'
          /\ ~sessionActive'
          /\ onSessionEnd => endFired' = endFired + 1
          /\ ~onSessionEnd'
      ]_vars

CleanedUpPending ==
    /\ lastOp.op = "cleanup"
    /\ lastOp.swept # {}
    /\ lastOp.hadCallback
    /\ endFired = 1

ResolveOnlyWhatIsPending ==
    [][lastOp'.op = "resolveToolCall" =>
          IF lastOp'.id \notin DOMAIN pendingByCallId
          THEN /\ ~lastOp'.returns
               /\ bridgeVars' = bridgeVars
          ELSE LET r == pendingByCallId[lastOp'.id].req
               IN /\ lastOp'.returns
                  /\ mcp[r].timer = "armed" /\ mcp'[r].timer = "cleared"
                  /\ mcp'[r].resolved = 1 /\ mcp'[r].rejected = 0
                  /\ mcp'[r].outcome = <<"ok", lastOp'.result>>
                  /\ pendingByCallId' = Remove(pendingByCallId, lastOp'.id)
                  /\ expectedByName' = expectedByName
                  /\ \A q \in MCPReqs \ {r} : mcp'[q] = mcp[q]
                  /\ sessionActive' = sessionActive
      ]_vars

ResolvedOneOfTwo ==
    /\ lastOp.op = "resolveToolCall"
    /\ lastOp.returns
    /\ pendingByCallId # EmptyMap

\* C28: in every reachable state hasPending is true exactly when
\* pendingByCallId is non-empty or some expectedByName queue is non-empty:
\* an emptied queue is never left in the map to hold it true, and it is
\* never false while an id is queued.
HasPendingIffSomethingHeld ==
    HasPending(St) <=>
        \/ pendingByCallId # EmptyMap
        \/ \E n \in DOMAIN expectedByName : Len(expectedByName[n]) > 0

\* the queue was shifted empty and the request bound to its last id has
\* just been resolved: nothing is held and hasPending is false
DrainedAndResolved ==
    /\ lastOp.op = "resolveToolCall" /\ lastOp.returns
    /\ lastOp.id \in popped
    /\ sessionActive
    /\ ~HasPending(St)

----
(***************************************************************************)
(* Properties of the streamingDone slot (SpecWait).                        *)
(***************************************************************************)

\* C21: waitForStreamingDone and notifyStreamingDone are a single-shot
\* rendezvous.  A notify with a waiter in the slot resolves that waiter's
\* promise, which was not resolved before, and leaves the slot null, so no
\* later notify resolves it again; a notify with an empty slot changes no
\* field of the state; a wait leaves its own promise pending in the slot
\* whatever notifies came before it; and no other call resolves a promise.
SingleShotRendezvous ==
    [][IF lastOp'.op = "notifyStreamingDone"
       THEN IF streamingDone # NoWaiter
            THEN /\ streamingDone \notin woken
                 /\ woken' = woken \cup {streamingDone}
                 /\ streamingDone' = NoWaiter
            ELSE bridgeVars' = bridgeVars
       ELSE /\ woken' = woken
            /\ lastOp'.op = "waitForStreamingDone" =>
                   /\ streamingDone' = nextMsg
                   /\ nextMsg \notin woken'
      ]_vars

\* a second notify found the slot empty after the first one had resolved the
\* only wait
NotifiedTwiceResolvedOnce ==
    /\ lastOp = [op |-> "notifyStreamingDone", waiter |-> NoWaiter]
    /\ woken = {1}
    /\ nextMsg = 2

----
(***************************************************************************)
(* Properties of the tool cache (SpecTools).                               *)
(***************************************************************************)

\* the positions of the cached tools whose name is some characters, then two
\* underscores, then the name asked for
SuffixMatches(name) ==
    {i \in 1..Len(cachedTools) :
        LET t == cachedTools[i].name
            d == Len(t) - Len(name)
        IN /\ d >= 2
           /\ t[d - 1] = "_" /\ t[d] = "_"
           /\ \A j \in 1..Len(name) : t[d + j] = name[j]}

\* C23: resolveToolName is idempotent: whatever the cached catalog and the
\* name, resolving the name that resolveToolName returned returns it again.
ResolveIsIdempotent ==
    lastOp.op = "resolveToolName" =>
        ResolveToolName(St, lastOp.returns) = lastOp.returns

\* a short name was resolved to the full name of a tool of a two-tool catalog
ShortNameResolved ==
    /\ lastOp.op = "resolveToolName"
    /\ lastOp.returns # lastOp.name
    /\ Len(cachedTools) = 2

\* C24: resolveToolName(name) returns name when a cached tool has exactly
\* that name; otherwise, when exactly one cached tool's name ends with "__"
\* followed by name, that tool's name; otherwise (none, or more than one)
\* name.  A tool whose name ends with name without the "__" before it does
\* not count.
ResolvesExactThenUniqueSuffix ==
    lastOp.op = "resolveToolName" =>
        LET name == lastOp.name
            exact == \E i \in 1..Len(cachedTools) : cachedTools[i].name = name
            matches == SuffixMatches(name)
        IN lastOp.returns =
               IF exact THEN name
               ELSE IF Cardinality(matches) = 1
                    THEN cachedTools[CHOOSE i \in matches : TRUE].name
               ELSE name

\* the name asked for ends the name of a cached tool, without the boundary,
\* and came back unchanged
NoBoundaryNoMatch ==
    /\ lastOp.op = "resolveToolName"
    /\ lastOp.returns = lastOp.name
    /\ Len(cachedTools) = 1
    /\ EndsWith(cachedTools[1].name, lastOp.name)
    /\ cachedTools[1].name # lastOp.name

\* the property keys of the schema of the cached tool of that name; empty
\* when no tool has the name or its schema has no properties
SchemaKeysOf(toolName) ==
    UNION {{cachedTools[i].properties[j].key :
               j \in 1..Len(cachedTools[i].properties)} :
           i \in {n \in 1..Len(cachedTools) :
                     cachedTools[n].name = toolName}}

\* the keys of an object kept as the sequence of its entries
KeysOf(obj) == {obj[i].key : i \in 1..Len(obj)}

Renamings ==
    {<<<<"o", "u", "t", "p", "u", "t", "M", "o", "d", "e">>,
       <<"o", "u", "t", "p", "u", "t", "_", "m", "o", "d", "e">>>>,
     <<<<"f", "i", "l", "e", "_", "p", "a", "t", "h">>, <<"f", "i", "l", "e", "P", "a", "t", "h">>>>,
     <<<<"i", "g", "n", "o", "r", "e", "C", "a", "s", "e">>, <<"-", "i">>>>}

----
(***************************************************************************)
(* Properties of the process shutdown (SpecProcessFair).                   *)
(***************************************************************************)

Signalled == Len(proc.shutdowns) > 0

\* service.stop() is called only once app.close() has closed the listener
StopsAfterClose ==
    \A k \in 1..Len(proc.shutdowns) :
        proc.shutdowns[k].stop # "none" =>
            /\ proc.shutdowns[k].close = "resolved"
            /\ proc.listener = "closed"

\* app.close() or service.stop() of some run of shutdown has rejected
SomethingRejected ==
    \E k \in 1..Len(proc.shutdowns) :
        \/ proc.shutdowns[k].close = "rejected"
        \/ proc.shutdowns[k].stop = "rejected"

----
(***************************************************************************)
(* Properties of the permission hook (SpecHook).                           *)
(***************************************************************************)

\* the first thirteen characters of the name spell xcode-bridge-
BeginsWithBridge(name) ==
    /\ Len(name) >= 13
    /\ \A i \in 1..13 : name[i] = BridgePrefix[i]

\* the list holds the name or "*"
Lists(list, name) == name \in Range(list) \/ Star \in Range(list)

\* allowedCliTools or the allowedTools of a configured server lists the name
Allowlisted(opts, name) ==
    \/ Lists(opts.allowedCliTools, name)
    \/ \E i \in 1..Len(opts.mcpServers) :
           /\ opts.mcpServers[i].hasAllowedTools
           /\ Lists(opts.mcpServers[i].allowedTools, name)

\* C22 as stated: onPreToolUse returns allow when the tool name begins with
\* "xcode-bridge-", or allowedCliTools contains the name or "*", or some
\* configured server's allowedTools contains the name or "*"; in every other
\* case it returns deny.
BridgePrefixAlwaysAllowed ==
    hookCall # NoCall =>
        hookCall.decision =
            IF \/ BeginsWithBridge(hookCall.toolName)
               \/ Allowlisted(sessionOpts, hookCall.toolName)
            THEN "allow" ELSE "deny"

\* C22, amended: onPreToolUse returns allow when the session was configured
\* with the tool bridge (hasToolBridge is true) and the tool name begins with
\* "xcode-bridge-", or allowedCliTools contains the name or "*", or some
\* configured server's allowedTools contains the name or "*"; in every other
\* case it returns deny.
AllowedByBridgeOrAllowlist ==
    hookCall # NoCall =>
        hookCall.decision =
            IF \/ /\ sessionOpts.hasToolBridge = "true"
                  /\ BeginsWithBridge(hookCall.toolName)
               \/ Allowlisted(sessionOpts, hookCall.toolName)
            THEN "allow" ELSE "deny"

\* a bridge-prefixed name was denied because the session has no bridge and
\* no allowlist names it
BridgeNameDeniedWithoutBridge ==
    /\ hookCall = [toolName |-> BridgePrefix \o <<"R", "e", "a", "d">>,
                   decision |-> "deny"]
    /\ sessionOpts.hasToolBridge # "true"
    /\ Len(sessionOpts.mcpServers) = 2

----
(***************************************************************************)
(* Properties of the bridge route and its connection (SpecRoute).          *)
(***************************************************************************)

\* request r is the one its entry of pendingByCallId belongs to
ParkedIn(pending, calls, r) ==
    /\ calls[r].id \in DOMAIN pending
    /\ pending[calls[r].id].req = r

\* C29: the tool-call reply is held open until the pending entry is
\* resolved, rejected or timed out; when the shim's connection closes first,
\* the entry stays in pendingByCallId with its timer running, and only
\* resolveToolCall, its timeout, markSessionInactive or cleanup remove it.
ParkedCallOutlivesItsConnection ==
    [][\A r \in MCPReqs :
          /\ ParkedIn(pendingByCallId, mcp, r) =>
                /\ RouteAnswers(St)[r] = NoAnswer
                /\ mcp[r].timer = "armed"
          /\ (RouteAnswers(St)[r] = NoAnswer /\ RouteAnswers(St')[r] # NoAnswer)
                => (mcp[r].called \/ lastOp'.op = "registerMCPRequest")
                   /\ Settled(mcp'[r])
          /\ r \in closedCalls' \ closedCalls =>
                /\ ParkedIn(pendingByCallId, mcp, r)
                /\ ParkedIn(pendingByCallId', mcp', r)
                /\ mcp'[r].timer = "armed"
          /\ (/\ r \in closedCalls
              /\ ParkedIn(pendingByCallId, mcp, r)
              /\ ~ParkedIn(pendingByCallId', mcp', r)) =>
                /\ lastOp'.op \in {"resolveToolCall", "timeout",
                                   "markSessionInactive", "cleanup"}
                /\ lastOp'.op \in {"resolveToolCall", "timeout"}
                       => lastOp'.id = mcp[r].id
      ]_vars

\* the connection of a parked call closed, and a call registered after it
\* was resolved while the first stayed parked with its timer running
ClosedCallStillParked ==
    \E r, q \in MCPReqs :
        /\ r < q
        /\ r \in closedCalls
        /\ ParkedIn(pendingByCallId, mcp, r) /\ mcp[r].timer = "armed"
        /\ mcp[q].outcome # << >> /\ mcp[q].outcome[1] = "ok"

----
(***************************************************************************)
(* Properties of the tool-call route's validation (SpecPost).              *)
(***************************************************************************)

\* the body lacks a non-empty string name or an object arguments
Lacks(body) ==
    \/ body.name.type # "string"
    \/ body.name.text = ""
    \/ body.arguments # "object"

\* C34: a POST /internal/tool-call whose body lacks a non-empty string name
\* or an object arguments is answered 400 without a call of
\* registerMCPRequest: no expected id is consumed, no pending entry is
\* created and no timer is started.
BadToolCallBodyChangesNothing ==
    [][(lastOp'.op = "tool-call" /\ lastOp' # lastOp /\ Lacks(lastOp'.body)) =>
          /\ lastOp'.status = 400
          /\ nextReq' = nextReq
          /\ expectedByName' = expectedByName
          /\ pendingByCallId' = pendingByCallId
          /\ mcp' = mcp
          /\ toolCall' = toolCall
      ]_vars

\* a call of Read without arguments was refused while an id was queued for
\* Read and a request was parked with its timer running
RefusedWithIdQueued ==
    /\ lastOp.op = "tool-call" /\ lastOp.status = 400
    /\ lastOp.body.name.text = "Read" /\ lastOp.body.arguments = "undefined"
    /\ HasExpectedTool(St, "Read")
    /\ \E r \in MCPReqs : mcp[r].timer = "armed"

----
(***************************************************************************)
(* Properties of the MCP passthrough, under SpecShim                       *)
(***************************************************************************)

UnknownMethod(line) ==
    /\ line.parse = "object"
    /\ line.method \notin {"initialize", "notifications/initialized",
                           "tools/list", "tools/call"}

\* C27: a notifications/initialized line produces no reply; a line with an
\* unknown method and an id produces exactly one JSON-RPC error, with code
\* -32601 and that id; a line with an unknown method and no id, or a line
\* that is not valid JSON, produces no reply (nothing is written and no
\* fetch is started whose outcome would be written later).
ShimRepliesOnlyToUnknownWithId ==
    [][(lastOp'.op = "line" /\ shim'.lines = shim.lines + 1) =>
        LET line == lastOp'.line
            silent == /\ shim'.stdout = shim.stdout
                      /\ shim'.fetches = shim.fetches
        IN /\ (line.parse = "object"
                 /\ line.method = "notifications/initialized") => silent
           /\ (UnknownMethod(line) /\ line.id # "undefined") =>
                 /\ shim'.stdout = Append(shim.stdout,
                        [id |-> line.id, kind |-> "error", code |-> -32601])
                 /\ shim'.fetches = shim.fetches
           /\ (UnknownMethod(line) /\ line.id = "undefined") => silent
           /\ line.parse = "invalid" => silent]_vars

\* the sequence q without its i-th element
Without(q, i) == SubSeq(q, 1, i - 1) \o SubSeq(q, i + 1, Len(q))

\* C40: every tools/list and tools/call line starts one call that stays in
\* flight, untouched by later lines and by the settling of other calls, until
\* its own fetch settles; the step that settles it writes exactly one message
\* that carries the id of that line - a result when the server answered 2xx,
\* an error with code -32603 on another status or an exception - and takes
\* the call out of flight, so it is never answered again, in whichever order
\* the calls in flight settle.
ShimAnswersEachCallOnce ==
    [][/\ (lastOp'.op = "line" /\ shim'.lines = shim.lines + 1) =>
             LET line == lastOp'.line
             IN IF line.parse = "object"
                     /\ line.method \in {"tools/list", "tools/call"}
                THEN /\ shim'.stdout = shim.stdout
                     /\ shim'.fetches =
                            Append(shim.fetches,
                                   [id |-> line.id, method |-> line.method])
                ELSE shim'.fetches = shim.fetches
       /\ Len(shim'.fetches) < Len(shim.fetches) =>
             /\ lastOp'.op = "fetch"
             /\ \E i \in 1..Len(shim.fetches) :
                    LET f == shim.fetches[i]
                    IN /\ shim'.fetches = Without(shim.fetches, i)
                       /\ f.method = lastOp'.method
                       /\ shim'.stdout =
                              Append(shim.stdout,
                                     IF lastOp'.outcome = "ok"
                                     THEN [id |-> f.id, kind |-> "result",
                                           code |-> 0]
                                     ELSE [id |-> f.id, kind |-> "error",
                                           code |-> -32603])
       /\ Len(shim'.fetches) = Len(shim.fetches) =>
             /\ shim'.fetches = shim.fetches
             /\ shim'.stdout # shim.stdout => lastOp'.op = "line"
      ]_vars

\* two calls were in flight at once and the later one was answered first:
\* tools/list with id 7 got its result, then tools/call with id null got its
\* error
AnsweredOutOfOrder ==
    /\ lastOp = [op |-> "fetch", method |-> "tools/call", outcome |-> "notOk"]
    /\ shim.lines = 2
    /\ shim.fetches = << >>
    /\ shim.stdout = <<[id |-> "7", kind |-> "result", code |-> 0],
                       [id |-> "null", kind |-> "error", code |-> -32603]>>

\* an unknown method with id 7 was answered after a notification and an
\* unparsable line that left stdout empty
UnknownMethodAnswered ==
    /\ lastOp.op = "line"
    /\ UnknownMethod(lastOp.line) /\ lastOp.line.id = "7"
    /\ shim.lines = 3
    /\ shim.stdout = <<[id |-> "7", kind |-> "error", code |-> -32601]>>

----
(***************************************************************************)
(* Properties of the server: requests, sessions and tool calls interleaved *)
(* on the state the handlers share (SpecServer).                           *)
(***************************************************************************)

\* C5: POST /v1/messages requests that are new (the last message is a plain
\* string of the user) and overlap in time open independent conversations:
\* none of them is taken down the continuation path, and while the session of
\* one of them streams, the reply its state writes to is not the reply of
\* another new request.
NewRequestsAreIndependent ==
    \A m \in MsgReqs :
        msg[m].kind = "fresh" =>
            /\ msg[m].path # "continuation"
            /\ \A o \in MsgReqs \ {m} :
                   (msg[o].kind = "fresh" /\ msg[o].pc = "streaming")
                       => reply # m

\* C6: a tool_result {tool_use_id: id, content: c} that arrives while the
\* bridge's tool-call request bound to id is parked gets that request
\* answered 200 {content: c}; and a tool-call request is answered 200 only
\* with the content a tool_result delivered for the id it is bound to.
ToolResultAnswersItsCall ==
    /\ \A m \in MsgReqs :
           msg[m].parked =>
               \E r \in MCPReqs :
                   /\ mcp[r].id = msg[m].id
                   /\ toolCall[r] = [status |-> 200, content |-> msg[m].content]
    /\ \A r \in MCPReqs :
           toolCall[r].status = 200 =>
               \E m \in MsgReqs :
                   /\ msg[m].parked
                   /\ msg[m].id = mcp[r].id
                   /\ msg[m].content = toolCall[r].content

RoundTripAnswered ==
    \E m \in MsgReqs, r \in MCPReqs :
        /\ msg[m].parked
        /\ mcp[r].id = msg[m].id
        /\ toolCall[r] = [status |-> 200, content |-> msg[m].content]

NoExpectedRejectsAtOnce ==
    [][nextReq' = nextReq + 1 =>
          LET r == nextReq
              name == mcp'[nextReq].name
          IN (name \notin DOMAIN expectedByName
                  \/ Len(expectedByName[name]) = 0)
                => /\ mcp'[r].rejected = 1 /\ mcp'[r].resolved = 0
                   /\ mcp'[r].outcome = <<"err", ErrNoExpected(name)>>
                   /\ mcp'[r].timer = "none"
                   /\ expectedByName' = expectedByName
                   /\ pendingByCallId' = pendingByCallId
                   /\ sessionActive' = sessionActive
                   /\ toolCall'[r] = [status |-> 500, content |-> ""]
                   /\ reply' = reply /\ msg' = msg
      ]_vars

UnexpectedCallRefused ==
    \E r \in MCPReqs :
        /\ toolCall[r].status = 500
        /\ mcp[r].outcome = <<"err", ErrNoExpected(mcp[r].name)>>
        /\ sessionActive
        /\ expectedByName # EmptyMap

\* the session of request m ends in this step
TurnEnds(m) == msg[m].pc = "streaming" /\ msg'[m].pc = "done"

\* the frames of the session of request m among the frames of one reply
FramesOf(frames, m) == SelectSeq(frames, LAMBDA f : f.session = m)

\* the last n frames of the attached reply were written in this step and are
\* the frames of the given types of the session of request m
Emits(m, types) ==
    /\ reply # NoReply
    /\ LET old == msg[reply].frames
           new == msg'[reply].frames
       IN /\ Len(new) = Len(old) + Len(types)
          /\ SubSeq(new, 1, Len(old)) = old
          /\ \A i \in 1..Len(types) :
                 new[Len(old) + i] = Frame(types[i], NoId, m)

\* markSessionInactive and notifyStreamingDone have run in this step
TerminalCleanup ==
    /\ sessionActive' = FALSE
    /\ expectedByName' = EmptyMap
    /\ pendingByCallId' = EmptyMap
    /\ \A id \in DOMAIN pendingByCallId :
           LET r == pendingByCallId[id].req
           IN /\ mcp'[r].rejected = 1 /\ mcp'[r].resolved = 0
              /\ mcp'[r].outcome = <<"err", ErrSessionEnded>>
              /\ mcp'[r].timer = "cleared"
              /\ toolCall'[r].status = 500
    /\ streamingDone' = NoWaiter
    /\ streamingDone # NoWaiter =>
           /\ streamingDone \in woken'
           /\ msg'[streamingDone].pc = "done"

\* C19: when a session goes idle the transform writes message_delta and then
\* message_stop to the attached reply; markSessionInactive has left
\* sessionActive false and no expected or pending entry, every parked tool
\* call being rejected "Session ended"; streamingDone is notified, so the
\* request waiting on it returns; hadError is as it was; and once the
\* session of a request is done no frame of that session is written again.
IdleEndsTheTurn ==
    [][\A m \in MsgReqs :
          /\ (TurnEnds(m) /\ ~Emits(m, <<"error">>)) =>
                 /\ Emits(m, <<"message_delta", "message_stop">>)
                 /\ TerminalCleanup
                 /\ hadError' = hadError
          /\ msg[m].pc = "done" =>
                 \A k \in MsgReqs :
                     FramesOf(msg'[k].frames, m) = FramesOf(msg[k].frames, m)
      ]_vars

\* a session went idle while a continuation request was waiting and a tool
\* call was parked: the request has returned, the tool call was rejected
IdleReleasedTheWaiter ==
    \E k \in MsgReqs, r \in MCPReqs :
        /\ msg[k].path = "continuation" /\ msg[k].pc = "done"
        /\ k \in woken
        /\ Len(msg[k].frames) > 0
        /\ msg[k].frames[Len(msg[k].frames)].type = "message_stop"
        /\ mcp[r].outcome = <<"err", ErrSessionEnded>>
        /\ ~hadError /\ ~sessionActive

\* C20: when a session reports an error the transform sets hadError, writes
\* one error frame to the attached reply and runs the terminal cleanup of
\* the idle case: sessionActive false, every pending tool call rejected, the
\* expected queues and the pending map empty, streamingDone notified.
ErrorEndsTheTurn ==
    [][\A m \in MsgReqs :
          (TurnEnds(m) /\ ~Emits(m, <<"message_delta", "message_stop">>)) =>
              /\ Emits(m, <<"error">>)
              /\ hadError'
              /\ TerminalCleanup
      ]_vars

\* a session failed while a tool call was parked: the error frame is the
\* last frame of the reply and the tool call was rejected
ErrorSweptAParkedCall ==
    \E k \in MsgReqs, r \in MCPReqs :
        /\ Len(msg[k].frames) > 0
        /\ msg[k].frames[Len(msg[k].frames)].type = "error"
        /\ hadError /\ ~sessionActive
        /\ mcp[r].outcome = <<"err", ErrSessionEnded>>
        /\ toolCall[r].status = 500

----
(***************************************************************************)
(* Properties of the close of a continuation reply (SpecClose).            *)
(***************************************************************************)

\* C30: when the reply of a continuation request closes, cleanup() and
\* notifyStreamingDone() run only if that reply is still the state's current
\* reply; the close of a reply that a later setReply has superseded changes
\* nothing in the conversation state and releases no waiter.
ClosedReplyActsOnlyIfCurrent ==
    [][\A m \in MsgReqs :
          (msg[m].closeHandler /\ ~msg'[m].closeHandler) =>
              IF reply = m
              THEN St' = NotifyStreamingDone(Cleanup(St))
              ELSE /\ UNCHANGED bridgeVars
                   /\ toolCall' = toolCall
                   /\ \A k \in MsgReqs : msg'[k].pc = msg[k].pc
      ]_vars

\* the reply of the first continuation closed after the second one had
\* replaced it: the session is still active and the second still waits
SupersededReplyClosed ==
    \E m, k \in MsgReqs :
        /\ m < k
        /\ msg[m].path = "continuation" /\ ~msg[m].closeHandler
        /\ msg[k].path = "continuation" /\ msg[k].closeHandler
        /\ reply = k /\ sessionActive
        /\ streamingDone = k /\ msg[k].pc = "waiting"

\* C33: hadError is sticky: once markSessionErrored has set it, it is true
\* in every later state of that ToolBridgeState; markSessionActive,
\* markSessionInactive, cleanup, setReply and the tool-call operations never
\* reset it.
HadErrorIsSticky ==
    [][/\ lastOp'.op = "markSessionErrored" => hadError'
       /\ hadError => hadError'
      ]_vars

\* after the error a continuation attached its reply and the session was
\* marked active again, with the flag still set
ErroredThenActiveAgain ==
    /\ hadError /\ sessionActive
    /\ lastOp.op = "markSessionActive"
    /\ reply # NoReply

----
(***************************************************************************)
(* Properties of the ConversationManager (SpecManager).                    *)
(***************************************************************************)

\* the state holds the id: in pendingByCallId or in a queue of expectedByName
HoldsId(s, id) ==
    \/ id \in DOMAIN s.pendingByCallId
    \/ \E n \in DOMAIN s.expectedByName :
           \E i \in 1..Len(s.expectedByName[n]) : s.expectedByName[n][i] = id

HoldsOneOf(c, ids) == \E id \in ids : HoldsId(conversationsById[c], id)

\* message lists whose last message is a user message with an array content
WithBlocks ==
    {ms \in MessageLists :
        /\ Len(ms) > 0
        /\ ms[Len(ms)].role = "user"
        /\ ~ms[Len(ms)].plain}

\* C11: a conversation id is registered in the manager iff the session-end
\* callback of its state has not fired yet: an id create() has returned is
\* registered with the callback in place and not fired, or unregistered with
\* the callback fired; and markSessionInactive(), cleanup() and remove(id) on
\* a conversation leave it unregistered with the callback fired.
RegisteredIffNotEnded ==
    /\ \A c \in ConvIds :
           IF c < nextConv
           THEN \/ /\ c \in DOMAIN conversationsById
                   /\ c \notin DOMAIN detached
                   /\ conversationsById[c].endFired = 0
                   /\ conversationsById[c].onSessionEnd
                \/ /\ c \notin DOMAIN conversationsById
                   /\ c \in DOMAIN detached
                   /\ detached[c] > 0
           ELSE c \notin DOMAIN conversationsById /\ c \notin DOMAIN detached
    /\ (lastMgr.op \in {"markSessionInactive", "cleanup", "remove"}
           /\ lastMgr.conv < nextConv)
          => /\ lastMgr.conv \notin DOMAIN conversationsById
             /\ detached[lastMgr.conv] > 0

OneRegisteredOneEnded ==
    /\ lastMgr.op = "markSessionInactive"
    /\ detached[lastMgr.conv] > 0
    /\ \E c \in ConvIds : c \in DOMAIN conversationsById

\* C12: when the tool_result blocks of the last user message name an id that
\* some registered conversation holds, findByContinuation returns a
\* registered conversation that holds one of the ids named, never one that
\* holds none of them and never undefined.
ContinuationFindsHolder ==
    \A ms \in WithBlocks :
        LET ids == ToolResultIds(ms[Len(ms)].blocks)
        IN (\E c \in DOMAIN conversationsById : HoldsOneOf(c, ids))
              => \A found \in FindByContinuation(Mgr, ms) :
                    /\ found \in DOMAIN conversationsById
                    /\ HoldsOneOf(found, ids)

HolderFoundAmongTwo ==
    \E ms \in WithBlocks, c, d \in DOMAIN conversationsById :
        /\ c # d
        /\ HoldsOneOf(c, ToolResultIds(ms[Len(ms)].blocks))
        /\ ~HoldsOneOf(d, ToolResultIds(ms[Len(ms)].blocks))
        /\ conversationsById[d].sessionActive
        /\ FindByContinuation(Mgr, ms) = {c}

\* C14: when the last user message carries tool_result blocks and no
\* registered conversation holds any of their ids, findByContinuation
\* returns a registered conversation whose sessionActive is true if there is
\* one, and undefined if no conversation is active.
FallbackIsActive ==
    \A ms \in WithBlocks :
        LET ids == ToolResultIds(ms[Len(ms)].blocks)
        IN (ids # {} /\ \A c \in DOMAIN conversationsById : ~HoldsOneOf(c, ids))
              => \A found \in FindByContinuation(Mgr, ms) :
                    IF \E c \in DOMAIN conversationsById :
                           conversationsById[c].sessionActive
                    THEN /\ found \in DOMAIN conversationsById
                         /\ conversationsById[found].sessionActive
                    ELSE found = NoConv

FallbackPicksActive ==
    \E ms \in WithBlocks, c, d \in DOMAIN conversationsById :
        /\ ToolResultIds(ms[Len(ms)].blocks) # {}
        /\ \A e \in DOMAIN conversationsById :
               ~HoldsOneOf(e, ToolResultIds(ms[Len(ms)].blocks))
        /\ conversationsById[c].sessionActive
        /\ ~conversationsById[d].sessionActive
        /\ conversationsById[d].expectedByName # EmptyMap
        /\ FindByContinuation(Mgr, ms) = {c}

----
(***************************************************************************)
(* Properties of the public routes behind the onRequest hook (SpecFront).  *)
(***************************************************************************)

\* the request has been received
Arrived(m) == msg[m].route # "none"

\* the header is present and its first six characters are X c o d e /
NamesXcode(h) ==
    /\ h.present
    /\ Len(h.value) >= 6
    /\ h.value[1] = "X" /\ h.value[2] = "c" /\ h.value[3] = "o"
    /\ h.value[4] = "d" /\ h.value[5] = "e" /\ h.value[6] = "/"

\* C17: a POST /v1/messages answered 400 because its body is malformed or
\* its model is not in the available list has created no session and has
\* left the conversation state as it was before the request: handling it
\* changed no field of the state.
InvalidRequestChangesNothing ==
    \A m \in MsgReqs :
        (/\ msg[m].route = "/v1/messages"
         /\ msg[m].kind \in {"malformed", "fresh"}
         /\ msg[m].status = 400) =>
            /\ msg[m].pc = "done"
            /\ msg[m].frames = << >>
            /\ ~msg[m].touched

TookNewPath(m) == msg[m].path = "new"
CarriedTools(m) == TookNewPath(m) /\ Len(msg[m].tools) > 0

\* C31 as stated: once a request has taken the new-session path, the
\* catalog that GET /internal/tools serves is exactly the tool list of the
\* latest such request, with nothing left over from an earlier one.
CatalogIsLatestRequestsTools ==
    \A m \in MsgReqs :
        (TookNewPath(m) /\ \A k \in MsgReqs : TookNewPath(k) => k <= m) =>
            cachedTools = msg[m].tools

\* C31 amended: the catalog is exactly the tool list of the latest
\* new-session request that carried at least one tool, with nothing left
\* over from an earlier one; a request without tools leaves the catalog as
\* it was (empty when no request has carried tools).
CatalogIsLatestNonEmptyToolList ==
    /\ \A m \in MsgReqs :
          (CarriedTools(m) /\ \A k \in MsgReqs : CarriedTools(k) => k <= m) =>
              cachedTools = msg[m].tools
    /\ (\A m \in MsgReqs : ~CarriedTools(m)) => cachedTools = NoTools

\* a request with two tools was followed by a request with one: the catalog
\* holds the one tool only
SmallerCatalogReplacedLarger ==
    \E m, k \in MsgReqs :
        /\ m < k
        /\ CarriedTools(m) /\ Len(msg[m].tools) = 2
        /\ CarriedTools(k) /\ Len(msg[k].tools) = 1
        /\ cachedTools = msg[k].tools

\* request m is formatted in this step: it takes the new-session path, and
\* its prompt is built from req.messages.slice(sentMessageCount)
Formats(m) == msg[m].path = "none" /\ msg'[m].path = "new"

\* C32: the number of leading messages skipped when a request's prompt is
\* formatted is the count recorded by the last completed request of the same
\* conversation, and is unaffected by requests of other conversations.  The
\* requests that are formatted are the ones that open a conversation, so
\* the number skipped is 0.
SkipsOnlyOwnConversationsMessages ==
    [][\A m \in MsgReqs : Formats(m) => sentMessageCount = 0]_vars

----
(***************************************************************************)
(* Properties of the order of arrival on the server (SpecServer).          *)
(***************************************************************************)

\* the continuation request m delivered a tool_result for an id that no
\* bridge request was bound to yet, and the bridge request r, bound to the id
\* since, is parked on it
BoundAfterItsResult(m, r) ==
    /\ msg[m].path = "continuation" /\ msg[m].kind = "toolResult"
    /\ ~msg[m].parked
    /\ mcp[r].id = msg[m].id
    /\ ParkedIn(pendingByCallId, mcp, r)

\* C35: a tool result is not lost to the order of arrival: when a
\* continuation delivers the tool_result of an id that is still in an
\* expected queue, the bridge request bound to the id later is resolved with
\* that content; it is not left to its timeout or to the end of the session.
EarlyResultReachesItsCall ==
    [][\A m \in MsgReqs, r \in MCPReqs :
          BoundAfterItsResult(m, r) =>
              \/ ~Settled(mcp'[r])
              \/ mcp'[r].outcome = <<"ok", msg[m].content>>
      ]_vars

----
(***************************************************************************)
(* Properties of two continuations waiting on one state (SpecClose).       *)
(***************************************************************************)

\* a notifyStreamingDone that found a resolver in the slot ran in this step
NotifyReleased == woken' # woken

\* C36: no waiter is lost.  When requests are suspended in
\* waitForStreamingDone on the same state, the next notifyStreamingDone that
\* releases a waiter releases every one of them: each handler that was
\* waiting returns.
NotifyReleasesEveryWaiter ==
    [][NotifyReleased =>
          \A m \in MsgReqs : msg[m].pc = "waiting" => msg'[m].pc = "done"
      ]_vars

----
(***************************************************************************)
(* Properties of the session-end callback (SpecEnd).                       *)
(***************************************************************************)

\* C37: the session-end callback of a ToolBridgeState is invoked at most
\* once over the state's lifetime, whatever sequence of markSessionInactive
\* and cleanup calls is made, a cleanup re-entered from inside the callback
\* included.
SessionEndFiresAtMostOnce == endFired <= 1

----
(***************************************************************************)
(* Properties of the continuation path behind the hook (SpecFront).        *)
(***************************************************************************)

\* request m is taken down the continuation path in this step
TakesContinuation(m) == msg[m].path = "none" /\ msg'[m].path = "continuation"

\* a handler returns from its await in this step
SomeHandlerReturns ==
    \E k \in MsgReqs : /\ msg[k].pc \in {"waiting", "streaming"}
                       /\ msg'[k].pc = "done"

\* C39: a request taken down the continuation path creates no session,
\* leaves cachedTools alone and never runs the streaming transform: the step
\* that takes it attaches its reply, leaves it waiting in the streamingDone
\* slot and changes neither sessionActive nor sentMessageCount; from then on
\* it is waiting or has returned; and sentMessageCount changes only in a step
\* in which a handler returns from its await.
ContinuationOnlyAttachesAndWaits ==
    [][/\ \A m \in MsgReqs :
              /\ TakesContinuation(m) =>
                     /\ sessionsCreated' = sessionsCreated
                     /\ cachedTools' = cachedTools
                     /\ sentMessageCount' = sentMessageCount
                     /\ sessionActive' = sessionActive
                     /\ reply' = m /\ streamingDone' = m
                     /\ msg'[m].pc = "waiting" /\ msg'[m].status = 200
              /\ msg[m].path = "continuation" =>
                     /\ msg'[m].path = "continuation"
                     /\ msg'[m].pc \in {"waiting", "done"}
                     /\ msg[m].pc = "done" => msg'[m].pc = "done"
       /\ sentMessageCount' # sentMessageCount => SomeHandlerReturns
      ]_vars

\* a continuation that carried a tool list other than the catalog has
\* returned from its wait, and the catalog is still the one cached before
ContinuationLeftCatalog ==
    \E m \in MsgReqs :
        /\ msg[m].path = "continuation" /\ msg[m].pc = "done"
        /\ Len(msg[m].tools) > 0 /\ msg[m].tools # cachedTools
        /\ cachedTools # NoTools
        /\ sessionsCreated = 1
        /\ sentMessageCount > 0

====
